---------------------------- MODULE Spec2Model ----------------------------
(***************************************************************************)
(* The PTY prompt bridge of codex-run (src/src/commands/codex-run.pty.ts): *)
(* the prompt classifier, the auto-answer policy and the session bridge    *)
(* runPtyCodexSession with its closures onChunk, maybeHandlePrompt and     *)
(* flushSuppressedOutput.                                                  *)
(*                                                                         *)
(* Text.  A string is a sequence of tokens; a token is an indivisible      *)
(* piece of text (a word, a punctuation mark, a white-space character, an  *)
(* ANSI escape sequence, a binary byte).  Lengths and the two caps are     *)
(* counted in tokens.  Regular expressions of the source are translated    *)
(* to the same tests over tokens.                                          *)
(*                                                                         *)
(* Scheduling.  One action is one run-to-completion step of the JavaScript *)
(* event loop: a callback of the supervisor (a chunk, the heartbeat        *)
(* timer), or one promise job (the continuation of an await, a .catch or   *)
(* .finally reaction).  Promise jobs run before the next callback.         *)
(***************************************************************************)
EXTENDS Integers, Sequences, FiniteSets, TLC

\* ------------------------------------------------------------------ bounds

\* Number of callbacks (raw chunks, heartbeats) and clock steps in one session.
MaxEvents == 3
\* Milliseconds of the shorter clock step.
TickMs == 1000
\* Date.now() when the session starts.
StartMs == 5000
\* Lines of a tail handed to the classifier directly.
MaxLines == 5
\* Successive calls of a function with the same arguments.
MaxCalls == 2
\* The largest number of verification commands of a run.
MaxVerify == 2

\* Cap of the transcript, in tokens (the source: 600_000 characters).
MAX_TRANSCRIPT_CHARS == 12
\* Cap of the detection tail, in tokens (the source: 5_000 characters).
MAX_DETECTION_TAIL == 9

\* ------------------------------------------------------- program constants

\* Lines of the tail the classifier looks at.
RECENT_LINES == 4
\* Longest run between a confirmation verb and its yes/no indicator.
CONFIRM_GAP == 120
\* Window in which the same signature is not dispatched again.
DEDUP_WINDOW_MS == 2000

\* -------------------------------------------------------------------- text

\* An ANSI escape sequence (ESC [ 0 m), one token.
ANSI == "ESC[0m"
\* A binary byte that sanitizeBinaryOutput drops, one token.
NUL == "NUL"

SpaceTokens == {" ", "\t", "\n", "\r"}
PunctTokens == {"?", ":", ">", ".", "(y/N)", "[Y/n]"}

\* String.prototype.toLowerCase, token by token.
ToLowerCase(tok) ==
    CASE tok = "Proceed" -> "proceed"
      [] tok = "PROCEED" -> "proceed"
      [] tok = "Continue" -> "continue"
      [] tok = "Press" -> "press"
      [] tok = "Enter" -> "enter"
      [] tok = "Delete" -> "delete"
      [] tok = "DB" -> "db"
      [] tok = "(y/N)" -> "(y/n)"
      [] tok = "[Y/n]" -> "[y/n]"
      [] tok = "NUL" -> "nul"
      [] tok = "ESC[0m" -> "esc[0m"
      [] OTHER -> tok

\* \w at both ends: a word of letters and digits.
IsWord(tok) == tok \notin SpaceTokens \cup PunctTokens \cup {ANSI, NUL}

\* \s
IsSpace(tok) == tok \in SpaceTokens

Last(s) == s[Len(s)]

\* A cap that keeps the oldest n tokens: slice(0, n).
SliceFirst(s, n) ==
    IF Len(s) <= n THEN s ELSE SubSeq(s, 1, n)

\* A cap that truncates nothing.
SliceLastUncapped(s, n) == s

\* String.prototype.slice(-n) for n > 0.
SliceLast(s, n) ==
    IF Len(s) <= n THEN s ELSE SubSeq(s, Len(s) - n + 1, Len(s))

\* String.prototype.trim
RECURSIVE TrimLeft(_)
TrimLeft(s) ==
    IF s # <<>> /\ IsSpace(Head(s)) THEN TrimLeft(Tail(s)) ELSE s

RECURSIVE TrimRight(_)
TrimRight(s) ==
    IF s # <<>> /\ IsSpace(Last(s))
    THEN TrimRight(SubSeq(s, 1, Len(s) - 1))
    ELSE s

Trim(s) == TrimRight(TrimLeft(s))

\* String.prototype.split("\n")
RECURSIVE SplitLines(_, _)
SplitLines(s, cur) ==
    IF s = <<>> THEN <<cur>>
    ELSE IF Head(s) = "\n" THEN <<cur>> \o SplitLines(Tail(s), <<>>)
    ELSE SplitLines(Tail(s), Append(cur, Head(s)))

\* Array.prototype.join(" ")
RECURSIVE JoinSpace(_)
JoinSpace(ls) ==
    IF ls = <<>> THEN <<>>
    ELSE IF Len(ls) = 1 THEN ls[1]
    ELSE ls[1] \o <<" ">> \o JoinSpace(Tail(ls))

\* .replace(/\s+/g, " ")
RECURSIVE CollapseSpaces(_)
CollapseSpaces(s) ==
    IF s = <<>> THEN <<>>
    ELSE IF IsSpace(Head(s))
    THEN <<" ">> \o CollapseSpaces(TrimLeft(s))
    ELSE <<Head(s)>> \o CollapseSpaces(Tail(s))

\* sanitizeBinaryOutput (agents/shell-utils): drops binary noise.
sanitizeBinaryOutput(raw) == SelectSeq(raw, LAMBDA tok : tok # NUL)

\* stripAnsi (terminal/ansi): drops terminal control sequences.
stripAnsi(s) == SelectSeq(s, LAMBDA tok : tok # ANSI)

normalizeForPromptDetection(input) ==
    LET stripped == stripAnsi(input)
    IN  [i \in 1..Len(stripped) |->
            IF stripped[i] = "\r" THEN "\n" ELSE stripped[i]]

normalizePromptSignature(input) ==
    Trim(CollapseSpaces([i \in 1..Len(input) |-> ToLowerCase(input[i])]))

\* A write that adds no newline.
ensureTrailingNewlineOmitted(input) == input

\* input.endsWith("\n") ? input : `${input}\n`
ensureTrailingNewline(input) ==
    IF input # <<>> /\ Last(input) = "\n" THEN input ELSE Append(input, "\n")


\* An optional value (T | null, T | undefined): <<>> or <<v>>.
None == <<>>
Some(v) == <<v>>

\* ------------------------------------------------------- PromptClassifier

\* The index of the first token at or after i that is not white space
\* (Len(t) + 1 when there is none): where \s* stops.
RECURSIVE SkipSpaces(_, _)
SkipSpaces(t, i) ==
    IF i <= Len(t) /\ IsSpace(t[i]) THEN SkipSpaces(t, i + 1) ELSE i

LowerAt(t, i) == IF i >= 1 /\ i <= Len(t) THEN ToLowerCase(t[i]) ELSE ""

\* \b between t[i] and t[i+1] when t[i] is a word.
WordEndsAt(t, i) == i >= Len(t) \/ ~IsWord(t[i + 1])
\* \b between t[i-1] and t[i] when t[i] is a word.
WordStartsAt(t, i) == i <= 1 \/ ~IsWord(t[i - 1])

\* /press\s+(enter|return)\s+to\s+continue\b/i
PressEnterPattern(t) ==
    \E i \in 1..Len(t) :
        /\ LowerAt(t, i) = "press"
        /\ LET j == SkipSpaces(t, i + 1)
               k == SkipSpaces(t, j + 1)
               m == SkipSpaces(t, k + 1)
           IN  /\ j > i + 1 /\ LowerAt(t, j) \in {"enter", "return"}
               /\ k > j + 1 /\ LowerAt(t, k) = "to"
               /\ m > k + 1 /\ LowerAt(t, m) = "continue"
               /\ WordEndsAt(t, m)

ConfirmVerbs == {"proceed", "continue", "approve", "confirm", "allow", "execute"}

\* The indexes at which a match of
\* (proceed|continue|approve|confirm|are you sure|allow|execute)
\* that starts at i can end.
VerbEnds(t, i) ==
    (IF LowerAt(t, i) \in ConfirmVerbs THEN {i} ELSE {})
    \cup
    (IF /\ LowerAt(t, i) = "are" /\ LowerAt(t, i + 1) = " "
        /\ LowerAt(t, i + 2) = "you" /\ LowerAt(t, i + 3) = " "
        /\ LowerAt(t, i + 4) = "sure"
     THEN {i + 4} ELSE {})

\* (\(.*y\/n.*\)|\[.*y\/n.*\]), case-insensitive
IsYesNo(tok) == ToLowerCase(tok) \in {"(y/n)", "[y/n]"}

\* /(verb)[^.\n]{0,120}(\(.*y\/n.*\)|\[.*y\/n.*\])/i
ConfirmIndicatorPattern(t) ==
    \E i \in 1..Len(t) : \E e \in VerbEnds(t, i) : \E j \in (e + 1)..Len(t) :
        /\ IsYesNo(t[j])
        /\ j - e - 1 <= CONFIRM_GAP
        /\ \A k \in (e + 1)..(j - 1) : t[k] \notin {".", "\n"}

\* /(verb)\s*[?:]?\s*$/i
ConfirmTrailingPattern(t) ==
    \E i \in 1..Len(t) : \E e \in VerbEnds(t, i) :
        LET j == SkipSpaces(t, e + 1)
        IN  \/ j = Len(t) + 1
            \/ /\ j <= Len(t) /\ t[j] \in {"?", ":"}
               /\ SkipSpaces(t, j + 1) = Len(t) + 1

\* The indexes at which a match of
\* (enter choice|select( an?)? option|choose( an?)? option|choice\s*[:>])
\* that starts at i can end.
ChoiceEnds(t, i) ==
    (IF /\ LowerAt(t, i) = "enter" /\ LowerAt(t, i + 1) = " "
        /\ LowerAt(t, i + 2) = "choice"
     THEN {i + 2} ELSE {})
    \cup
    (IF /\ LowerAt(t, i) \in {"select", "choose"} /\ LowerAt(t, i + 1) = " "
        /\ LowerAt(t, i + 2) = "option"
     THEN {i + 2} ELSE {})
    \cup
    (IF /\ LowerAt(t, i) \in {"select", "choose"} /\ LowerAt(t, i + 1) = " "
        /\ LowerAt(t, i + 2) \in {"a", "an"} /\ LowerAt(t, i + 3) = " "
        /\ LowerAt(t, i + 4) = "option"
     THEN {i + 4} ELSE {})
    \cup
    (IF LowerAt(t, i) = "choice"
     THEN LET j == SkipSpaces(t, i + 1)
          IN  IF j <= Len(t) /\ t[j] \in {":", ">"} THEN {j} ELSE {}
     ELSE {})

\* /(...)\s*$/i
ChoicePattern(t) ==
    \E i \in 1..Len(t) : \E e \in ChoiceEnds(t, i) :
        SkipSpaces(t, e + 1) = Len(t) + 1

\* .split("\n").map((line) => line.trim()).filter((line) => line.length > 0)
NonEmptyTrimmedLines(normalized) ==
    LET raw == SplitLines(normalized, <<>>)
        trimmed == [i \in 1..Len(raw) |-> Trim(raw[i])]
    IN  SelectSeq(trimmed, LAMBDA line : Len(line) > 0)

\* A window of all the lines of the tail.
RecentLinesUnsliced(rawTail) ==
    NonEmptyTrimmedLines(normalizeForPromptDetection(rawTail))

\* The detection window: lines.slice(-4).
RecentLines(rawTail) ==
    SliceLast(NonEmptyTrimmedLines(normalizeForPromptDetection(rawTail)),
              RECENT_LINES)

\* A classifier that takes the last line of any output for a choice prompt.
detectInteractivePromptAnyLine(rawTail) ==
    LET recent == RecentLines(rawTail)
    IN  IF Len(recent) = 0 THEN None
        ELSE Some([kind |-> "choice", text |-> Last(recent)])

\* A classifier that tests the confirm pattern before the press-enter one.
detectInteractivePromptConfirmFirst(rawTail) ==
    LET recent == RecentLines(rawTail)
        tail == JoinSpace(recent)
    IN  IF Len(recent) = 0 THEN None
        ELSE IF ConfirmIndicatorPattern(tail) \/ ConfirmTrailingPattern(tail)
        THEN Some([kind |-> "confirm", text |-> Last(recent)])
        ELSE IF PressEnterPattern(tail)
        THEN Some([kind |-> "press-enter", text |-> Last(recent),
                   safeAutoResponse |-> <<>>])
        ELSE IF ChoicePattern(tail)
        THEN Some([kind |-> "choice", text |-> Last(recent)])
        ELSE None

detectInteractivePrompt(rawTail) ==
    LET recent == RecentLines(rawTail)
        tail == JoinSpace(recent)
    IN  IF Len(recent) = 0 THEN None
        ELSE IF PressEnterPattern(tail)
        THEN Some([kind |-> "press-enter", text |-> Last(recent),
                   safeAutoResponse |-> <<>>])
        ELSE IF ConfirmIndicatorPattern(tail) \/ ConfirmTrailingPattern(tail)
        THEN Some([kind |-> "confirm", text |-> Last(recent)])
        ELSE IF ChoicePattern(tail)
        THEN Some([kind |-> "choice", text |-> Last(recent)])
        ELSE None

\* -------------------------------------------------------- AutoAnswerPolicy

\* The single words of HIGH_RISK_CONFIRM_PATTERN.  Its phrases (rm -rf,
\* git reset --hard, git push --force) each contain one of these words
\* (rm, reset, force) as a whole word, so they match nothing more.
HighRiskWords ==
    {"rm", "delete", "drop", "destroy", "erase", "wipe", "truncate",
     "reset", "revert", "force", "overwrite", "production", "prod",
     "database", "db", "schema", "migration", "credential", "secret",
     "token", "key", "sudo", "root"}

\* HIGH_RISK_CONFIRM_PATTERN.test(text): /\b(...)\b/i
HIGH_RISK_CONFIRM_PATTERN(text) ==
    \E i \in 1..Len(text) :
        /\ LowerAt(text, i) \in HighRiskWords
        /\ WordStartsAt(text, i)
        /\ WordEndsAt(text, i)

\* prompt.safeAutoResponse ?? ""
SafeAutoResponseOrEmpty(prompt) ==
    IF "safeAutoResponse" \in DOMAIN prompt
    THEN prompt.safeAutoResponse ELSE <<>>

Modes == {"off", "safe", "balanced", "yolo"}

\* A policy whose balanced mode answers every confirmation, as yolo does.
resolveAutoResponseWithoutLexicon(mode, prompt) ==
    IF mode = "off" THEN None
    ELSE IF mode = "safe"
    THEN IF prompt.kind = "press-enter"
         THEN Some(SafeAutoResponseOrEmpty(prompt)) ELSE None
    ELSE IF prompt.kind = "press-enter"
    THEN Some(SafeAutoResponseOrEmpty(prompt))
    ELSE IF prompt.kind = "confirm" THEN Some(<<"y">>)
    ELSE IF prompt.kind = "choice" /\ mode = "yolo" THEN Some(<<"1">>)
    ELSE None

\* A policy whose yolo mode defers choice prompts.
resolveAutoResponseYoloDefersChoice(mode, prompt) ==
    IF mode = "off" THEN None
    ELSE IF mode = "safe"
    THEN IF prompt.kind = "press-enter"
         THEN Some(SafeAutoResponseOrEmpty(prompt)) ELSE None
    ELSE IF prompt.kind = "press-enter"
    THEN Some(SafeAutoResponseOrEmpty(prompt))
    ELSE IF prompt.kind = "confirm"
    THEN IF mode = "balanced" /\ HIGH_RISK_CONFIRM_PATTERN(prompt.text)
         THEN None ELSE Some(<<"y">>)
    ELSE None

resolveAutoResponse(mode, prompt) ==
    IF mode = "off" THEN None
    ELSE IF mode = "safe"
    THEN IF prompt.kind = "press-enter"
         THEN Some(SafeAutoResponseOrEmpty(prompt)) ELSE None
    ELSE IF mode = "balanced"
    THEN IF prompt.kind = "press-enter"
         THEN Some(SafeAutoResponseOrEmpty(prompt))
         ELSE IF prompt.kind = "confirm"
         THEN IF HIGH_RISK_CONFIRM_PATTERN(prompt.text)
              THEN None ELSE Some(<<"y">>)
         ELSE None
    ELSE IF prompt.kind = "press-enter"
    THEN Some(SafeAutoResponseOrEmpty(prompt))
    ELSE IF prompt.kind = "confirm" THEN Some(<<"y">>)
    ELSE IF prompt.kind = "choice" THEN Some(<<"1">>)
    ELSE None


\* ----------------------------------------------------------- SessionBridge

\* The raw chunks the supervised process can emit.
RawChunks ==
    { <<"ok", "\n">>,
      <<"Proceed", "?", " ", "(y/N)", " ">>,
      <<"\r", ANSI, "PROCEED", "?", "\t", "(y/N)">>,
      <<"Delete", " ", "DB", " ">>,
      <<"Press", " ", "Enter", " ", "to", " ", "continue">>,
      <<"Enter", " ", "choice", ":">>,
      <<NUL>> }

\* What a manual responder can answer.
ResponderAnswers == { <<"y">>, <<"n">> }

\* What the supervisor's wait() can resolve to (RunExit).
RunExits ==
    { [reason |-> "exit", exitCode |-> 0],
      [reason |-> "exit", exitCode |-> 2],
      [reason |-> "timeout"],
      [reason |-> "cancelled"] }

VARIABLES
    autoAnswer,           \* input.autoAnswer
    hasResponder,         \* input.promptResponder is given
    transcript,
    detectTail,
    pollSamples,
    suppressedOutput,
    suppressUserOutput,
    promptHandling,       \* "null", or the state of the promise it holds
    promptError,          \* None or Some(error)
    cancelRun,            \* cancelRun is set
    runStdin,             \* runStdin is set
    lastPromptSignature,
    lastPromptAtMs,
    promptEvents,
    handlerPrompt,        \* the prompt the handler in flight closed over
    handlerThrown,        \* the error the handler's async body threw
    sessionPc,            \* where runPtyCodexSession stands
    exit,                 \* None or Some(what wait() resolved to)
    outcome,              \* None or Some(how the session call settled)
    pollActive,           \* the heartbeat interval is set
    streamOpen,           \* the log stream is open
    now,                  \* Date.now()
    logFile,              \* what was written to the log stream
    stdinWrites,          \* what was written to the child's input
    observed,             \* the calls of input.onOutput
    responderCalls,       \* the calls of input.promptResponder, each with
                          \* the number of chunks received when it is made
    cancelRequests,       \* the calls of managedRun.cancel
    received,             \* the non-empty sanitized chunks, as they arrived
    dispatched,           \* the dispatches: signature and time of each
    tailSince,            \* the number of chunks received when detectTail
                          \* was last reset
    nEvents,              \* callbacks and clock steps so far
    fnArgs,               \* a direct call of a function: the
                          \* function and its arguments
    fnResult,             \* what the successive calls with fnArgs returned
    runner                \* codexRunCommand: its position, its local
                          \* variables and the commands it has run

\* The state of a session.
sessionVars ==
    <<autoAnswer, hasResponder, transcript, detectTail, pollSamples,
      suppressedOutput, suppressUserOutput, promptHandling, promptError,
      cancelRun, runStdin, lastPromptSignature, lastPromptAtMs, promptEvents,
      handlerPrompt, handlerThrown, sessionPc, exit, outcome, pollActive,
      streamOpen, now, logFile, stdinWrites, observed, responderCalls,
      cancelRequests, received, dispatched, tailSince, nEvents>>

vars ==
    <<runner, fnArgs, fnResult, autoAnswer, hasResponder, transcript, detectTail, pollSamples,
      suppressedOutput, suppressUserOutput, promptHandling, promptError,
      cancelRun, runStdin, lastPromptSignature, lastPromptAtMs, promptEvents,
      handlerPrompt, handlerThrown, sessionPc, exit, outcome, pollActive,
      streamOpen, now, logFile, stdinWrites, observed, responderCalls,
      cancelRequests, received, dispatched, tailSince, nEvents>>

\* The session has spawned nothing yet; the log stream is open.
Init ==
    /\ autoAnswer \in Modes
    /\ hasResponder \in BOOLEAN
    /\ transcript = <<>>
    /\ detectTail = <<>>
    /\ pollSamples = 0
    /\ suppressedOutput = <<>>
    /\ suppressUserOutput = FALSE
    /\ promptHandling = "null"
    /\ promptError = None
    /\ cancelRun = FALSE
    /\ runStdin = FALSE
    /\ lastPromptSignature = <<>>
    /\ lastPromptAtMs = 0
    /\ promptEvents = <<>>
    /\ handlerPrompt = None
    /\ handlerThrown = None
    /\ sessionPc = "spawning"
    /\ exit = None
    /\ outcome = None
    /\ pollActive = FALSE
    /\ streamOpen = TRUE
    /\ now = StartMs
    /\ logFile = <<>>
    /\ stdinWrites = <<>>
    /\ observed = <<>>
    /\ responderCalls = <<>>
    /\ cancelRequests = 0
    /\ received = <<>>
    /\ dispatched = <<>>
    /\ tailSince = 0
    /\ nEvents = 0
    /\ fnArgs = [fn |-> "none"]
    /\ fnResult = <<>>
    /\ runner = [pc |-> "idle"]

\* A promise job of the handler or of the session call is queued: it runs
\* before the next callback of the supervisor or of a timer.
JobsPending ==
    promptHandling \in {"fulfilled", "rejected"} \/ sessionPc = "resuming"

\* An observer that is called twice with every text.
DeliverTwice(obs, text, recorded) ==
    Append(Append(obs, [text |-> text, events |-> recorded]),
           [text |-> text, events |-> recorded])

\* input.onOutput?.(text): one call, tagged with the number of prompt
\* events recorded when it is made.
Deliver(obs, text, recorded) ==
    Append(obs, [text |-> text, events |-> recorded])

\* A flush that clears the buffer without handing it to the observer.
FlushedToNobody(obs, recorded) == obs

\* flushSuppressedOutput: the observer's calls after it ran from obs.
FlushedTo(obs, recorded) ==
    IF suppressedOutput = <<>> THEN obs
    ELSE Deliver(obs, suppressedOutput, recorded)

\* The guard without its test of runStdin: a prompt is handled before the
\* child's input is there.
HandlerBlockedWithoutStdinGuard == promptHandling # "null" \/ promptError # None

\* The guard that tests promptHandling only.
HandlerBlockedOnlyWhileRunning == promptHandling # "null"

\* The guard without its test of promptHandling: a chunk can start a handler
\* while one is running.
HandlerBlockedWithoutReentryGuard == promptError # None \/ ~runStdin

\* The guard without its test of promptError: prompts are still handled
\* after a fatal prompt error.
HandlerBlockedWithoutErrorGuard == promptHandling # "null" \/ ~runStdin

\* if (promptHandling || promptError || !runStdin) return;
HandlerBlocked == promptHandling # "null" \/ promptError # None \/ ~runStdin

\* `${prompt.kind}:${normalizePromptSignature(prompt.text)}`
SignatureOf(prompt) == <<prompt.kind>> \o <<":">> \o normalizePromptSignature(prompt.text)

\* A window that still holds when exactly 2000 ms have elapsed.
IsRepeatInclusive(signature, nowMs) ==
    signature = lastPromptSignature /\ nowMs - lastPromptAtMs <= DEDUP_WINDOW_MS

\* The window taken in seconds where the clock counts milliseconds.
IsRepeatWindowInSeconds(signature, nowMs) ==
    signature = lastPromptSignature /\ nowMs - lastPromptAtMs < DEDUP_WINDOW_MS \div 1000

\* signature === lastPromptSignature && now - lastPromptAtMs < 2_000
IsRepeat(signature, nowMs) ==
    signature = lastPromptSignature /\ nowMs - lastPromptAtMs < DEDUP_WINDOW_MS

\* A handler that answers without recording the event.
RecordEventDropped(events, prompt, source, response) == events

\* A handler that records every answer as an automatic one.
RecordEventAsAuto(events, prompt, source, response) ==
    Append(events, [kind |-> prompt.kind, text |-> prompt.text,
                    source |-> "auto", response |-> response, atMs |-> now])

\* promptEvents.push({ kind, text, source, response, atMs: Date.now() })
RecordEvent(events, prompt, source, response) ==
    Append(events, [kind |-> prompt.kind, text |-> prompt.text,
                    source |-> source, response |-> response, atMs |-> now])

\* maybeHandlePrompt on the tail that onChunk has just extended, up to the
\* first await of the handler it starts.
maybeHandlePrompt(tail) ==
    LET found == detectInteractivePrompt(tail)
        prompt == found[1]
        signature == SignatureOf(prompt)
        autoResponse == resolveAutoResponse(autoAnswer, prompt)
    IN  IF HandlerBlocked \/ found = None \/ IsRepeat(signature, now)
        THEN /\ detectTail' = tail
             /\ UNCHANGED <<lastPromptSignature, lastPromptAtMs, promptHandling,
                            handlerPrompt, handlerThrown, stdinWrites,
                            promptEvents, suppressUserOutput, responderCalls,
                            dispatched, tailSince>>
        ELSE /\ lastPromptSignature' = signature
             /\ lastPromptAtMs' = now
             /\ dispatched' =
                  Append(dispatched, [signature |-> signature, atMs |-> now])
             /\ handlerPrompt' = Some(prompt)
             /\ IF autoResponse # None
                THEN /\ stdinWrites' =
                          Append(stdinWrites, ensureTrailingNewline(autoResponse[1]))
                     /\ detectTail' = <<>>
                     /\ tailSince' = Len(received')
                     /\ promptEvents' =
                          RecordEvent(promptEvents, prompt, "auto", autoResponse[1])
                     /\ promptHandling' = "fulfilled"
                     /\ UNCHANGED <<handlerThrown, suppressUserOutput,
                                    responderCalls>>
                ELSE IF ~hasResponder
                THEN /\ handlerThrown' = Some("no-responder")
                     /\ promptHandling' = "rejected"
                     /\ detectTail' = tail
                     /\ UNCHANGED <<stdinWrites, promptEvents, tailSince,
                                    suppressUserOutput, responderCalls>>
                ELSE /\ suppressUserOutput' = TRUE
                     /\ responderCalls' =
                          Append(responderCalls,
                                 [prompt |-> prompt, received |-> Len(received')])
                     /\ promptHandling' = "awaiting"
                     /\ detectTail' = tail
                     /\ UNCHANGED <<handlerThrown, stdinWrites, promptEvents,
                                    tailSince>>

\* An onChunk that, while output is suppressed, only buffers the chunk: the
\* log, the transcript and the detection tail do not get it.
OnChunkBufferingOnly(rawChunk) ==
    /\ sessionPc \in {"spawning", "waiting", "awaitingHandler"}
    /\ ~JobsPending
    /\ nEvents < MaxEvents
    /\ nEvents' = nEvents + 1
    /\ LET chunk == sanitizeBinaryOutput(rawChunk)
       IN  IF chunk = <<>>
           THEN UNCHANGED <<transcript, detectTail, suppressedOutput, observed,
                            logFile, received, dispatched, lastPromptSignature,
                            lastPromptAtMs, promptHandling, handlerPrompt,
                            handlerThrown, stdinWrites, promptEvents,
                            suppressUserOutput, responderCalls, tailSince>>
           ELSE IF suppressUserOutput
           THEN /\ received' = Append(received, chunk)
                /\ suppressedOutput' = suppressedOutput \o chunk
                /\ UNCHANGED <<transcript, detectTail, observed, logFile,
                               dispatched, lastPromptSignature, lastPromptAtMs,
                               promptHandling, handlerPrompt, handlerThrown,
                               stdinWrites, promptEvents, suppressUserOutput,
                               responderCalls, tailSince>>
           ELSE /\ logFile' = logFile \o chunk
                /\ received' = Append(received, chunk)
                /\ transcript' = SliceLast(transcript \o chunk, MAX_TRANSCRIPT_CHARS)
                /\ observed' = Deliver(observed, chunk, Len(promptEvents))
                /\ UNCHANGED suppressedOutput
                /\ maybeHandlePrompt(
                       SliceLast(detectTail \o normalizeForPromptDetection(chunk),
                                 MAX_DETECTION_TAIL))
    /\ UNCHANGED <<runner, fnArgs, fnResult,
                   autoAnswer, hasResponder, pollSamples, promptError, cancelRun,
                   runStdin, sessionPc, exit, outcome, pollActive, streamOpen,
                   now, cancelRequests>>

\* An onChunk that runs prompt handling before it forwards the chunk: the
\* chunk that makes the handler turn suppression on is buffered.
OnChunkHandlingBeforeForwarding(rawChunk) ==
    /\ sessionPc \in {"spawning", "waiting", "awaitingHandler"}
    /\ ~JobsPending
    /\ nEvents < MaxEvents
    /\ nEvents' = nEvents + 1
    /\ LET chunk == sanitizeBinaryOutput(rawChunk)
       IN  IF chunk = <<>>
           THEN UNCHANGED <<transcript, detectTail, suppressedOutput, observed,
                            logFile, received, dispatched, lastPromptSignature,
                            lastPromptAtMs, promptHandling, handlerPrompt,
                            handlerThrown, stdinWrites, promptEvents,
                            suppressUserOutput, responderCalls, tailSince>>
           ELSE /\ logFile' = logFile \o chunk
                /\ received' = Append(received, chunk)
                /\ transcript' = SliceLast(transcript \o chunk, MAX_TRANSCRIPT_CHARS)
                /\ maybeHandlePrompt(
                       SliceLast(detectTail \o normalizeForPromptDetection(chunk),
                                 MAX_DETECTION_TAIL))
                /\ IF suppressUserOutput'
                   THEN /\ suppressedOutput' = suppressedOutput \o chunk
                        /\ UNCHANGED observed
                   ELSE /\ observed' = Deliver(observed, chunk, Len(promptEvents))
                        /\ UNCHANGED suppressedOutput
    /\ UNCHANGED <<runner, fnArgs, fnResult,
                   autoAnswer, hasResponder, pollSamples, promptError, cancelRun,
                   runStdin, sessionPc, exit, outcome, pollActive, streamOpen,
                   now, cancelRequests>>

\* An onChunk that runs prompt handling also for a chunk that sanitizes to
\* the empty string.
OnChunkHandlingEmptyChunks(rawChunk) ==
    /\ sessionPc \in {"spawning", "waiting", "awaitingHandler"}
    /\ ~JobsPending
    /\ nEvents < MaxEvents
    /\ nEvents' = nEvents + 1
    /\ LET chunk == sanitizeBinaryOutput(rawChunk)
       IN  IF chunk = <<>>
           THEN /\ UNCHANGED <<transcript, suppressedOutput, observed,
                               logFile, received>>
                /\ maybeHandlePrompt(detectTail)
           ELSE /\ logFile' = logFile \o chunk
                /\ received' = Append(received, chunk)
                /\ transcript' = SliceLast(transcript \o chunk, MAX_TRANSCRIPT_CHARS)
                /\ IF suppressUserOutput
                   THEN /\ suppressedOutput' = suppressedOutput \o chunk
                        /\ UNCHANGED observed
                   ELSE /\ observed' = Deliver(observed, chunk, Len(promptEvents))
                        /\ UNCHANGED suppressedOutput
                /\ maybeHandlePrompt(
                       SliceLast(detectTail \o normalizeForPromptDetection(chunk),
                                 MAX_DETECTION_TAIL))
    /\ UNCHANGED <<runner, fnArgs, fnResult,
                   autoAnswer, hasResponder, pollSamples, promptError, cancelRun,
                   runStdin, sessionPc, exit, outcome, pollActive, streamOpen,
                   now, cancelRequests>>

\* onChunk, the supervisor's onStdout and onStderr callback.
OnChunk(rawChunk) ==
    /\ sessionPc \in {"spawning", "waiting", "awaitingHandler"}
    /\ ~JobsPending
    /\ nEvents < MaxEvents
    /\ nEvents' = nEvents + 1
    /\ LET chunk == sanitizeBinaryOutput(rawChunk)
       IN  IF chunk = <<>>
           THEN UNCHANGED <<transcript, detectTail, suppressedOutput, observed,
                            logFile, received, dispatched, lastPromptSignature,
                            lastPromptAtMs, promptHandling, handlerPrompt,
                            handlerThrown, stdinWrites, promptEvents,
                            suppressUserOutput, responderCalls, tailSince>>
           ELSE /\ logFile' = logFile \o chunk
                /\ received' = Append(received, chunk)
                /\ transcript' = SliceLast(transcript \o chunk, MAX_TRANSCRIPT_CHARS)
                /\ IF suppressUserOutput
                   THEN /\ suppressedOutput' = suppressedOutput \o chunk
                        /\ UNCHANGED observed
                   ELSE /\ observed' = Deliver(observed, chunk, Len(promptEvents))
                        /\ UNCHANGED suppressedOutput
                /\ maybeHandlePrompt(
                       SliceLast(detectTail \o normalizeForPromptDetection(chunk),
                                 MAX_DETECTION_TAIL))
    /\ UNCHANGED <<runner, fnArgs, fnResult,
                   autoAnswer, hasResponder, pollSamples, promptError, cancelRun,
                   runStdin, sessionPc, exit, outcome, pollActive, streamOpen,
                   now, cancelRequests>>

\* A handler that writes and records the answer and leaves the detection
\* tail as it is.
ResponderResolvesKeepingTail(response) ==
    /\ promptHandling = "awaiting"
    /\ stdinWrites' = Append(stdinWrites, ensureTrailingNewline(response))
    /\ promptEvents' =
          RecordEvent(promptEvents, handlerPrompt[1], "manual", response)
    /\ suppressUserOutput' = FALSE
    /\ observed' = FlushedTo(observed, Len(promptEvents'))
    /\ suppressedOutput' = <<>>
    /\ promptHandling' = "fulfilled"
    /\ UNCHANGED <<runner, fnArgs, fnResult,
                   autoAnswer, hasResponder, transcript, detectTail, pollSamples,
                   promptError, cancelRun, runStdin, lastPromptSignature,
                   lastPromptAtMs, handlerPrompt, handlerThrown, sessionPc, exit,
                   outcome, pollActive, streamOpen, now, logFile, responderCalls,
                   cancelRequests, received, dispatched, tailSince, nEvents>>

\* A handler that resets the detection tail to the output that arrived
\* while the responder was awaited.
ResponderResolvesKeepingLaterOutput(response) ==
    /\ promptHandling = "awaiting"
    /\ stdinWrites' = Append(stdinWrites, ensureTrailingNewline(response))
    /\ detectTail' =
          SliceLast(normalizeForPromptDetection(suppressedOutput),
                    MAX_DETECTION_TAIL)
    /\ promptEvents' =
          RecordEvent(promptEvents, handlerPrompt[1], "manual", response)
    /\ suppressUserOutput' = FALSE
    /\ observed' = FlushedTo(observed, Len(promptEvents'))
    /\ suppressedOutput' = <<>>
    /\ promptHandling' = "fulfilled"
    /\ tailSince' = Len(received)
    /\ UNCHANGED <<runner, fnArgs, fnResult,
                   autoAnswer, hasResponder, transcript, pollSamples, promptError,
                   cancelRun, runStdin, lastPromptSignature, lastPromptAtMs,
                   handlerPrompt, handlerThrown, sessionPc, exit, outcome,
                   pollActive, streamOpen, now, logFile, responderCalls,
                   cancelRequests, received, dispatched, nEvents>>

\* The handler resumes after `await input.promptResponder(prompt)` with the
\* response, and runs to its end through the finally block.
ResponderResolves(response) ==
    /\ promptHandling = "awaiting"
    /\ stdinWrites' = Append(stdinWrites, ensureTrailingNewline(response))
    /\ detectTail' = <<>>
    /\ promptEvents' =
          RecordEvent(promptEvents, handlerPrompt[1], "manual", response)
    /\ suppressUserOutput' = FALSE
    /\ observed' = FlushedTo(observed, Len(promptEvents'))
    /\ suppressedOutput' = <<>>
    /\ promptHandling' = "fulfilled"
    /\ tailSince' = Len(received)
    /\ UNCHANGED <<runner, fnArgs, fnResult,
                   autoAnswer, hasResponder, transcript, pollSamples, promptError,
                   cancelRun, runStdin, lastPromptSignature, lastPromptAtMs,
                   handlerPrompt, handlerThrown, sessionPc, exit, outcome,
                   pollActive, streamOpen, now, logFile, responderCalls,
                   cancelRequests, received, dispatched, nEvents>>

\* A handler that ends suppression and flushes only after a response: a
\* rejection leaves the flag and the buffer as they are.
ResponderRejectsWithoutFinally ==
    /\ promptHandling = "awaiting"
    /\ handlerThrown' = Some("responder-rejected")
    /\ promptHandling' = "rejected"
    /\ UNCHANGED <<runner, fnArgs, fnResult,
                   autoAnswer, hasResponder, transcript, detectTail, pollSamples,
                   suppressedOutput, suppressUserOutput, observed,
                   promptError, cancelRun, runStdin, lastPromptSignature,
                   lastPromptAtMs, promptEvents, handlerPrompt, sessionPc, exit,
                   outcome, pollActive, streamOpen, now, logFile, stdinWrites,
                   responderCalls, cancelRequests, received, dispatched, tailSince, nEvents>>

\* A handler whose finally block ends suppression and discards the buffer.
ResponderRejectsDroppingBuffer ==
    /\ promptHandling = "awaiting"
    /\ suppressUserOutput' = FALSE
    /\ suppressedOutput' = <<>>
    /\ handlerThrown' = Some("responder-rejected")
    /\ promptHandling' = "rejected"
    /\ UNCHANGED <<runner, fnArgs, fnResult,
                   autoAnswer, hasResponder, transcript, detectTail, pollSamples,
                   observed, promptError, cancelRun, runStdin,
                   lastPromptSignature, lastPromptAtMs, promptEvents,
                   handlerPrompt, sessionPc, exit, outcome, pollActive,
                   streamOpen, now, logFile, stdinWrites, responderCalls,
                   cancelRequests, received, dispatched, tailSince, nEvents>>

\* The responder's promise rejects: the handler runs its finally block and
\* its promise rejects.
ResponderRejects ==
    /\ promptHandling = "awaiting"
    /\ suppressUserOutput' = FALSE
    /\ observed' = FlushedTo(observed, Len(promptEvents))
    /\ suppressedOutput' = <<>>
    /\ handlerThrown' = Some("responder-rejected")
    /\ promptHandling' = "rejected"
    /\ UNCHANGED <<runner, fnArgs, fnResult,
                   autoAnswer, hasResponder, transcript, detectTail, pollSamples,
                   promptError, cancelRun, runStdin, lastPromptSignature,
                   lastPromptAtMs, promptEvents, handlerPrompt, sessionPc, exit,
                   outcome, pollActive, streamOpen, now, logFile, stdinWrites,
                   responderCalls, cancelRequests, received, dispatched, tailSince, nEvents>>

\* .catch((err) => { promptError = ...; cancelRun?.(); })
HandlerCatch ==
    /\ promptHandling = "rejected"
    /\ promptError' = handlerThrown
    /\ cancelRequests' = IF cancelRun THEN cancelRequests + 1 ELSE cancelRequests
    /\ promptHandling' = "fulfilled"
    /\ UNCHANGED <<runner, fnArgs, fnResult,
                   autoAnswer, hasResponder, transcript, detectTail, pollSamples,
                   suppressedOutput, suppressUserOutput, cancelRun, runStdin,
                   lastPromptSignature, lastPromptAtMs, promptEvents,
                   handlerPrompt, handlerThrown, sessionPc, exit, outcome,
                   pollActive, streamOpen, now, logFile, stdinWrites, observed,
                   responderCalls, received, dispatched, tailSince, nEvents>>

\* A handler whose end does not wake the session call that awaits it.
HandlerFinallyWithoutResuming ==
    /\ promptHandling = "fulfilled"
    /\ promptHandling' = "null"
    /\ handlerPrompt' = None
    /\ UNCHANGED <<runner, fnArgs, fnResult,
                   autoAnswer, hasResponder, transcript, detectTail, pollSamples,
                   suppressedOutput, suppressUserOutput, promptError, cancelRun,
                   runStdin, lastPromptSignature, lastPromptAtMs, promptEvents,
                   handlerThrown, sessionPc, exit, outcome, pollActive,
                   streamOpen, now, logFile, stdinWrites, observed,
                   responderCalls, cancelRequests, received, dispatched,
                   tailSince, nEvents>>

\* .finally(() => { promptHandling = null; }); a session call that awaits
\* promptHandling gets its continuation queued.
HandlerFinally ==
    /\ promptHandling = "fulfilled"
    /\ promptHandling' = "null"
    /\ handlerPrompt' = None
    /\ sessionPc' = IF sessionPc = "awaitingHandler" THEN "resuming" ELSE sessionPc
    /\ UNCHANGED <<runner, fnArgs, fnResult,
                   autoAnswer, hasResponder, transcript, detectTail, pollSamples,
                   suppressedOutput, suppressUserOutput, promptError, cancelRun,
                   runStdin, lastPromptSignature, lastPromptAtMs, promptEvents,
                   handlerThrown, exit, outcome, pollActive, streamOpen, now,
                   logFile, stdinWrites, observed, responderCalls,
                   cancelRequests, received, dispatched, tailSince, nEvents>>

\* supervisor.spawn resolves: runStdin, cancelRun and the heartbeat are set.
SpawnReturns ==
    /\ sessionPc = "spawning"
    /\ runStdin' = TRUE
    /\ cancelRun' = TRUE
    /\ pollActive' = TRUE
    /\ sessionPc' = "waiting"
    /\ UNCHANGED <<runner, fnArgs, fnResult,
                   autoAnswer, hasResponder, transcript, detectTail, pollSamples,
                   suppressedOutput, suppressUserOutput, promptHandling,
                   promptError, lastPromptSignature, lastPromptAtMs, promptEvents,
                   handlerPrompt, handlerThrown, exit, outcome, streamOpen,
                   now, logFile, stdinWrites, observed,
                   responderCalls, cancelRequests, received, dispatched, tailSince, nEvents>>


\* A session call that does not look at promptHandling after wait().
MustAwaitHandlerNever == FALSE

\* if (promptHandling) { await promptHandling; }
MustAwaitHandler == promptHandling # "null"

\* A session call that returns its result without looking at promptError.
SessionOutcomeIgnoringPromptError(runExit) ==
    [status |-> "resolved",
     result |-> [exit |-> runExit, promptEvents |-> promptEvents,
                 transcript |-> transcript, pollSamples |-> pollSamples]]

\* A session call that throws when the process did not exit with code 0.
SessionOutcomeThrowingOnFailure(runExit) ==
    IF promptError # None
    THEN [status |-> "rejected", error |-> promptError[1]]
    ELSE IF runExit # [reason |-> "exit", exitCode |-> 0]
    THEN [status |-> "rejected", error |-> "process-failed"]
    ELSE [status |-> "resolved",
          result |-> [exit |-> runExit, promptEvents |-> promptEvents,
                      transcript |-> transcript, pollSamples |-> pollSamples]]

\* if (promptError) throw promptError; return { ..., exit, promptEvents,
\* transcript, pollSamples, ... }
SessionOutcome(runExit) ==
    IF promptError # None
    THEN [status |-> "rejected", error |-> promptError[1]]
    ELSE [status |-> "resolved",
          result |-> [exit |-> runExit, promptEvents |-> promptEvents,
                      transcript |-> transcript, pollSamples |-> pollSamples]]

\* A session call that settles and leaves the heartbeat interval set.
SettleLeavingHeartbeat(runExit) ==
    /\ outcome' = Some(SessionOutcome(runExit))
    /\ pollActive' = pollActive
    /\ streamOpen' = FALSE
    /\ sessionPc' = "done"

\* The session call settles; its finally block clears the heartbeat and
\* ends the log stream.
Settle(runExit) ==
    /\ outcome' = Some(SessionOutcome(runExit))
    /\ pollActive' = FALSE
    /\ streamOpen' = FALSE
    /\ sessionPc' = "done"

\* managedRun.wait() resolves and the session call resumes after it.
WaitResolves(runExit) ==
    /\ sessionPc = "waiting"
    /\ runExit.reason = "cancelled" => cancelRequests > 0
    /\ exit' = Some(runExit)
    /\ IF MustAwaitHandler
       THEN /\ sessionPc' = "awaitingHandler"
            /\ UNCHANGED <<outcome, pollActive, streamOpen>>
       ELSE Settle(runExit)
    /\ UNCHANGED <<runner, fnArgs, fnResult,
                   autoAnswer, hasResponder, transcript, detectTail, pollSamples,
                   suppressedOutput, suppressUserOutput, promptHandling,
                   promptError, cancelRun, runStdin, lastPromptSignature,
                   lastPromptAtMs, promptEvents, handlerPrompt, handlerThrown,
                   now, logFile, stdinWrites, observed, responderCalls,
                   cancelRequests, received, dispatched, tailSince, nEvents>>

\* The session call resumes after `await promptHandling`.
SessionResumes ==
    /\ sessionPc = "resuming"
    /\ Settle(exit[1])
    /\ UNCHANGED <<runner, fnArgs, fnResult,
                   autoAnswer, hasResponder, transcript, detectTail, pollSamples,
                   suppressedOutput, suppressUserOutput, promptHandling,
                   promptError, cancelRun, runStdin, lastPromptSignature,
                   lastPromptAtMs, promptEvents, handlerPrompt, handlerThrown,
                   exit, now, logFile, stdinWrites, observed, responderCalls,
                   cancelRequests, received, dispatched, tailSince, nEvents>>

\* The heartbeat: setInterval(() => { ...; pollSamples += 1; }, 500)
Heartbeat ==
    /\ pollActive
    /\ ~JobsPending
    /\ nEvents < MaxEvents
    /\ nEvents' = nEvents + 1
    /\ pollSamples' = pollSamples + 1
    /\ UNCHANGED <<runner, fnArgs, fnResult,
                   autoAnswer, hasResponder, transcript, detectTail,
                   suppressedOutput, suppressUserOutput, promptHandling,
                   promptError, cancelRun, runStdin, lastPromptSignature,
                   lastPromptAtMs, promptEvents, handlerPrompt, handlerThrown,
                   sessionPc, exit, outcome, pollActive, streamOpen, now,
                   logFile, stdinWrites, observed, responderCalls,
                   cancelRequests, received, dispatched,
                   tailSince>>

\* By how much the clock can advance between two callbacks.
ClockSteps == {TickMs, DEDUP_WINDOW_MS}

\* The clock advances between two callbacks.
Tick(elapsed) ==
    /\ sessionPc # "done"
    /\ ~JobsPending
    /\ nEvents < MaxEvents
    /\ nEvents' = nEvents + 1
    /\ now' = now + elapsed
    /\ UNCHANGED <<runner, fnArgs, fnResult,
                   autoAnswer, hasResponder, transcript, detectTail, pollSamples,
                   suppressedOutput, suppressUserOutput, promptHandling,
                   promptError, cancelRun, runStdin, lastPromptSignature,
                   lastPromptAtMs, promptEvents, handlerPrompt, handlerThrown,
                   sessionPc, exit, outcome, pollActive, streamOpen, logFile,
                   stdinWrites, observed, responderCalls, cancelRequests,
                   received, dispatched, tailSince>>

Next ==
    \/ \E rawChunk \in RawChunks : OnChunk(rawChunk)
    \/ \E response \in ResponderAnswers : ResponderResolves(response)
    \/ ResponderRejects
    \/ HandlerCatch
    \/ HandlerFinally
    \/ SpawnReturns
    \/ \E runExit \in RunExits : WaitResolves(runExit)
    \/ SessionResumes
    \/ Heartbeat
    \/ \E elapsed \in ClockSteps : Tick(elapsed)

Spec == Init /\ [][Next]_vars

\* --------------------------------------------- a supervisor that can fail

\* `await supervisor.spawn(...)` throws: the statement stands before the
\* try block, so the session call rejects without running the finally block.
SpawnFails ==
    /\ sessionPc = "spawning"
    /\ outcome' = Some([status |-> "rejected", error |-> "spawn-failed"])
    /\ sessionPc' = "done"
    /\ UNCHANGED <<runner, fnArgs, fnResult,
                   autoAnswer, hasResponder, transcript, detectTail, pollSamples,
                   suppressedOutput, suppressUserOutput, promptHandling,
                   promptError, cancelRun, runStdin, lastPromptSignature,
                   lastPromptAtMs, promptEvents, handlerPrompt, handlerThrown,
                   exit, pollActive, streamOpen, now, logFile, stdinWrites,
                   observed, responderCalls, cancelRequests, received,
                   dispatched, tailSince, nEvents>>

\* `await managedRun.wait()` throws inside the try block: the finally block
\* clears the heartbeat and ends the log stream, and the session call
\* rejects with what wait() threw.
WaitRejects ==
    /\ sessionPc = "waiting"
    /\ outcome' = Some([status |-> "rejected", error |-> "wait-failed"])
    /\ pollActive' = FALSE
    /\ streamOpen' = FALSE
    /\ sessionPc' = "done"
    /\ UNCHANGED <<runner, fnArgs, fnResult,
                   autoAnswer, hasResponder, transcript, detectTail, pollSamples,
                   suppressedOutput, suppressUserOutput, promptHandling,
                   promptError, cancelRun, runStdin, lastPromptSignature,
                   lastPromptAtMs, promptEvents, handlerPrompt, handlerThrown,
                   exit, now, logFile, stdinWrites, observed, responderCalls,
                   cancelRequests, received, dispatched, tailSince, nEvents>>

NextWithFailures ==
    \/ Next
    \/ SpawnFails
    \/ WaitRejects

\* The session with a supervisor whose spawn and wait can reject.
SpecWithFailures == Init /\ [][NextWithFailures]_vars


\* ------------------------------------- a process that prints few prompts

\* The raw chunks of a process whose output is mostly not a prompt: plain
\* text, a bare escape sequence, white space, binary noise, and one prompt.
QuietChunks ==
    { <<"ok", "\n">>,
      <<ANSI>>,
      <<"\r", " ">>,
      <<"Delete", " ", "DB", " ">>,
      <<"Proceed", "?", " ", "(y/N)", " ">>,
      <<NUL>> }

NextQuietOutput ==
    \/ \E rawChunk \in QuietChunks : OnChunk(rawChunk)
    \/ \E response \in ResponderAnswers : ResponderResolves(response)
    \/ ResponderRejects
    \/ HandlerCatch
    \/ HandlerFinally
    \/ SpawnReturns
    \/ \E runExit \in RunExits : WaitResolves(runExit)
    \/ SessionResumes
    \/ Heartbeat
    \/ \E elapsed \in ClockSteps : Tick(elapsed)

\* The session of such a process.
SpecQuietOutput == Init /\ [][NextQuietOutput]_vars

\* ------------------------------------------------- a session that goes on

\* The session of a process that prints few prompts when spawn returns,
\* the process exits, every responder call settles, and the event loop
\* runs the promise jobs that are queued.
SpecLive ==
    /\ Init
    /\ [][NextQuietOutput]_vars
    /\ WF_vars(SpawnReturns)
    /\ WF_vars(\E runExit \in RunExits : WaitResolves(runExit))
    /\ WF_vars(\/ \E response \in ResponderAnswers : ResponderResolves(response)
               \/ ResponderRejects)
    /\ WF_vars(HandlerCatch)
    /\ WF_vars(HandlerFinally)
    /\ WF_vars(SessionResumes)

\* ------------------------------------------- the functions called directly

\* The lines a tail handed to the classifier is made of.
TailLines ==
    { <<"ok">>,
      <<"Press", " ", "Enter", " ", "to", " ", "continue">>,
      <<"Proceed", "?", " ", "(y/N)">>,
      <<"Enter", " ", "choice", ":">>,
      <<"Please", " ", "confirm">>,
      <<" ", "\r", ANSI, "Confirm", ".", " ", "[Y/n]", "\t">> }

\* Array.prototype.join("\n")
RECURSIVE JoinLines(_)
JoinLines(ls) ==
    IF ls = <<>> THEN <<>>
    ELSE IF Len(ls) = 1 THEN ls[1]
    ELSE ls[1] \o <<"\n">> \o JoinLines(Tail(ls))

\* The tails handed to detectInteractivePrompt: up to MaxLines lines.
TailInputs ==
    { JoinLines(ls) : ls \in UNION { [1..n -> TailLines] : n \in 0..MaxLines } }

\* The texts of the prompts handed to resolveAutoResponse.
PromptTexts ==
    { <<"Proceed", "?", " ", "(y/N)">>,
      <<"Delete", " ", "DB", "?">>,
      <<"Rotate", " ", "keys", "?">>,
      <<"Enter", " ", "choice", ":">> }

PromptKinds == {"press-enter", "confirm", "choice"}

\* The prompts (PromptMatch) handed to resolveAutoResponse, with and without
\* the optional safeAutoResponse.
PromptInputs ==
    [kind : PromptKinds, text : PromptTexts]
    \cup [kind : PromptKinds, text : PromptTexts, safeAutoResponse : {<<>>}]

FnInputs ==
    [fn : {"detectInteractivePrompt"}, rawTail : TailInputs]
    \cup [fn : {"resolveAutoResponse"}, mode : Modes, prompt : PromptInputs]

\* No session runs; one function and its arguments are chosen.
FunctionInit ==
    /\ fnArgs \in FnInputs
    /\ fnResult = <<>>
    /\ runner = [pc |-> "idle"]
    /\ autoAnswer = "off"
    /\ hasResponder = FALSE
    /\ transcript = <<>>
    /\ detectTail = <<>>
    /\ pollSamples = 0
    /\ suppressedOutput = <<>>
    /\ suppressUserOutput = FALSE
    /\ promptHandling = "null"
    /\ promptError = None
    /\ cancelRun = FALSE
    /\ runStdin = FALSE
    /\ lastPromptSignature = <<>>
    /\ lastPromptAtMs = 0
    /\ promptEvents = <<>>
    /\ handlerPrompt = None
    /\ handlerThrown = None
    /\ sessionPc = "spawning"
    /\ exit = None
    /\ outcome = None
    /\ pollActive = FALSE
    /\ streamOpen = TRUE
    /\ now = StartMs
    /\ logFile = <<>>
    /\ stdinWrites = <<>>
    /\ observed = <<>>
    /\ responderCalls = <<>>
    /\ cancelRequests = 0
    /\ received = <<>>
    /\ dispatched = <<>>
    /\ tailSince = 0
    /\ nEvents = 0

\* A classifier whose patterns keep their position between calls (the g
\* flag): the call after a match finds nothing.
CallDetectWithStickyPattern ==
    /\ fnArgs.fn = "detectInteractivePrompt"
    /\ Len(fnResult) < MaxCalls
    /\ fnResult' =
          Append(fnResult,
                 IF fnResult # <<>> /\ Last(fnResult) # None THEN None
                 ELSE detectInteractivePrompt(fnArgs.rawTail))
    /\ UNCHANGED <<runner, fnArgs, sessionVars>>

\* detectInteractivePrompt(rawTail) is called and returns.
CallDetect ==
    /\ fnArgs.fn = "detectInteractivePrompt"
    /\ Len(fnResult) < MaxCalls
    /\ fnResult' = Append(fnResult, detectInteractivePrompt(fnArgs.rawTail))
    /\ UNCHANGED <<runner, fnArgs, sessionVars>>

\* resolveAutoResponse(mode, prompt) is called and returns.
CallResolve ==
    /\ fnArgs.fn = "resolveAutoResponse"
    /\ Len(fnResult) < MaxCalls
    /\ fnResult' =
          Append(fnResult, resolveAutoResponse(fnArgs.mode, fnArgs.prompt))
    /\ UNCHANGED <<runner, fnArgs, sessionVars>>

FunctionNext ==
    \/ CallDetect
    \/ CallResolve

\* The classifier and the policy called directly on chosen arguments.
FunctionSpec == FunctionInit /\ [][FunctionNext]_vars

\* ----------------------------------------------------------- codexRunCommand

\* codexRunCommand keeps its local variables and the commands it has run in
\* one record; pc is the statement it stands at.  isGitRepo and dirty say
\* what git rev-parse --is-inside-work-tree and git status --porcelain
\* find in the repository when the command starts.
RunnerStarts ==
    { [pc |-> "stat", repoIsDirectory |-> d, isGitRepo |-> g, dirty |-> t,
       nVerify |-> 0, verified |-> 0, gitInitialized |-> FALSE,
       codexSucceeded |-> FALSE, verifySucceeded |-> TRUE,
       finalizeSucceeded |-> TRUE, branchCreated |-> FALSE,
       branchSwitched |-> FALSE, preFinalizeStatus |-> FALSE,
       session |-> None, ran |-> <<>>, summaryLogged |-> FALSE,
       result |-> None] :
      d \in BOOLEAN, g \in BOOLEAN, t \in BOOLEAN }

\* codexRunCommand is called; it gives the session a prompt responder.
RunnerInit ==
    /\ runner \in { r \in RunnerStarts :
                      /\ r.isGitRepo => r.repoIsDirectory
                      /\ r.dirty => r.isGitRepo }
    /\ fnArgs = [fn |-> "none"]
    /\ fnResult = <<>>
    /\ autoAnswer \in Modes
    /\ hasResponder = TRUE
    /\ transcript = <<>>
    /\ detectTail = <<>>
    /\ pollSamples = 0
    /\ suppressedOutput = <<>>
    /\ suppressUserOutput = FALSE
    /\ promptHandling = "null"
    /\ promptError = None
    /\ cancelRun = FALSE
    /\ runStdin = FALSE
    /\ lastPromptSignature = <<>>
    /\ lastPromptAtMs = 0
    /\ promptEvents = <<>>
    /\ handlerPrompt = None
    /\ handlerThrown = None
    /\ sessionPc = "spawning"
    /\ exit = None
    /\ outcome = None
    /\ pollActive = FALSE
    /\ streamOpen = TRUE
    /\ now = StartMs
    /\ logFile = <<>>
    /\ stdinWrites = <<>>
    /\ observed = <<>>
    /\ responderCalls = <<>>
    /\ cancelRequests = 0
    /\ received = <<>>
    /\ dispatched = <<>>
    /\ tailSince = 0
    /\ nEvents = 0

\* The command throws: the call rejects at this statement.
Throw(r) == [r EXCEPT !.pc = "thrown"]

\* The command goes on at statement pc.
At(r, pc) == [r EXCEPT !.pc = pc]

\* A command that changes the repository or runs a program was run, and
\* succeeded or failed.
Ran(r, cmd, ok) == [r EXCEPT !.ran = Append(@, [cmd |-> cmd, ok |-> ok])]

\* stat(repoPath): --repo must point to an existing directory.
RunnerStat ==
    /\ runner.pc = "stat"
    /\ runner' = IF runner.repoIsDirectory
                 THEN At(runner, "resolveVerify")
                 ELSE Throw(runner)
    /\ UNCHANGED <<fnArgs, fnResult, sessionVars>>

\* resolveVerificationCommands: the commands given, inferred or entered, at
\* least one; it throws when there is none.
RunnerResolveVerify ==
    /\ runner.pc = "resolveVerify"
    /\ \E n \in 0..MaxVerify :
          runner' = IF n = 0
                    THEN Throw(runner)
                    ELSE [runner EXCEPT !.pc = "ensureGitRepo", !.nVerify = n]
    /\ UNCHANGED <<fnArgs, fnResult, sessionVars>>

\* ensureGitRepo: a directory that is no git repository is initialized
\* (git init can fail), and the clean check is then skipped.
RunnerEnsureGitRepo ==
    /\ runner.pc = "ensureGitRepo"
    /\ IF runner.isGitRepo
       THEN runner' = At(runner, "ensureClean")
       ELSE \E ok \in BOOLEAN :
               runner' =
                  IF ok
                  THEN [Ran(runner, "git init", TRUE) EXCEPT
                           !.pc = "pull", !.gitInitialized = TRUE]
                  ELSE Throw(Ran(runner, "git init", FALSE))
    /\ UNCHANGED <<fnArgs, fnResult, sessionVars>>

\* A clean check that lets a dirty tree pass.
RunnerEnsureCleanNeverThrows ==
    /\ runner.pc = "ensureClean"
    /\ \E ok \in BOOLEAN :
          runner' = IF ok
                    THEN At(Ran(runner, "git status", TRUE), "pull")
                    ELSE Throw(Ran(runner, "git status", FALSE))
    /\ UNCHANGED <<fnArgs, fnResult, sessionVars>>

\* ensureCleanWorkingTree: git status --porcelain must print nothing.
RunnerEnsureClean ==
    /\ runner.pc = "ensureClean"
    /\ \E ok \in BOOLEAN :
          runner' = IF ok /\ ~runner.dirty
                    THEN At(Ran(runner, "git status", TRUE), "pull")
                    ELSE Throw(Ran(runner, "git status", ok))
    /\ UNCHANGED <<fnArgs, fnResult, sessionVars>>

PullOutcomes ==
    {"no-remotes", "fetch-failed", "no-upstream", "pulled", "pull-failed"}

\* pullLatestIfPossible: nothing without a remote; fetch; nothing more
\* without an upstream; pull --ff-only.  A failing fetch or pull throws.
pullLatestIfPossible(r, o) ==
    CASE o = "no-remotes"   -> r
      [] o = "fetch-failed" -> Throw(Ran(r, "git fetch", FALSE))
      [] o = "no-upstream"  -> Ran(r, "git fetch", TRUE)
      [] o = "pulled"       ->
            Ran(Ran(r, "git fetch", TRUE), "git pull", TRUE)
      [] o = "pull-failed"  ->
            Throw(Ran(Ran(r, "git fetch", TRUE), "git pull", FALSE))

\* if (!gitInitialized) await pullLatestIfPossible(...)
RunnerPull ==
    /\ runner.pc = "pull"
    /\ IF runner.gitInitialized
       THEN runner' = At(runner, "branch")
       ELSE \E o \in PullOutcomes :
               runner' = LET r2 == pullLatestIfPossible(runner, o)
                         IN  IF r2.pc = "thrown" THEN r2 ELSE At(r2, "branch")
    /\ UNCHANGED <<fnArgs, fnResult, sessionVars>>

BranchOutcomes ==
    {"invalid-name", "requested-current", "requested-existing",
     "requested-new", "use-current", "runner-branch", "no-unique-name"}

\* resolveWorkingBranch: the requested branch (validated; checked out, or
\* created), the current branch when the user accepts it, or a branch the
\* runner creates.  A failing checkout throws.
resolveWorkingBranch(r, o, ok) ==
    CASE o \in {"invalid-name", "no-unique-name"} -> Throw(r)
      [] o \in {"requested-current", "use-current"} -> r
      [] o = "requested-existing" ->
            IF ok
            THEN [Ran(r, "git checkout", TRUE) EXCEPT !.branchSwitched = TRUE]
            ELSE Throw(Ran(r, "git checkout", FALSE))
      [] o \in {"requested-new", "runner-branch"} ->
            IF ok
            THEN [Ran(r, "git checkout -b", TRUE) EXCEPT
                     !.branchCreated = TRUE, !.branchSwitched = TRUE]
            ELSE Throw(Ran(r, "git checkout -b", FALSE))

\* const branchSelection = await resolveWorkingBranch(...)
RunnerResolveBranch ==
    /\ runner.pc = "branch"
    /\ \E o \in BranchOutcomes, ok \in BOOLEAN :
          runner' = LET r2 == resolveWorkingBranch(runner, o, ok)
                    IN  IF r2.pc = "thrown" THEN r2 ELSE At(r2, "pullOnBranch")
    /\ UNCHANGED <<fnArgs, fnResult, sessionVars>>

\* The second pull, on an existing branch the runner switched to.
RunnerPullOnBranch ==
    /\ runner.pc = "pullOnBranch"
    /\ IF ~runner.gitInitialized /\ ~runner.branchCreated
          /\ runner.branchSwitched
       THEN \E o \in PullOutcomes :
               runner' = LET r2 == pullLatestIfPossible(runner, o)
                         IN  IF r2.pc = "thrown" THEN r2 ELSE At(r2, "session")
       ELSE runner' = At(runner, "session")
    /\ UNCHANGED <<fnArgs, fnResult, sessionVars>>

\* How runPtyCodexSession can settle.
SessionResults ==
    { [status |-> "resolved", exit |-> e] : e \in RunExits }
      \cup { [status |-> "rejected"] }

\* try { result = await runPtyCodexSession(...); codexSucceeded = ... }
\* catch { codexFailureReason = ... }
RunnerSession ==
    /\ runner.pc = "session"
    /\ \E o \in SessionResults :
          LET succeeded == /\ o.status = "resolved"
                           /\ o.exit.reason = "exit"
                           /\ o.exit.exitCode = 0
          IN  runner' = [Ran(runner, "codex", succeeded) EXCEPT
                            !.pc = "verify",
                            !.session = Some(o),
                            !.codexSucceeded = succeeded]
    /\ UNCHANGED <<fnArgs, fnResult, sessionVars>>

\* One turn of the loop over verifyCmds; a command that throws has failed.
RunnerVerify ==
    /\ runner.pc = "verify"
    /\ \E ok \in BOOLEAN :
          runner' = LET r2 == [Ran(runner, "verify", ok) EXCEPT
                                  !.verified = @ + 1,
                                  !.verifySucceeded = @ /\ ok]
                    IN  IF r2.verified = r2.nVerify
                        THEN At(r2, "preFinalizeStatus")
                        ELSE r2
    /\ UNCHANGED <<fnArgs, fnResult, sessionVars>>

\* preFinalizeStatus = git status --porcelain, "" when it fails.
RunnerPreFinalizeStatus ==
    /\ runner.pc = "preFinalizeStatus"
    /\ \E st \in {"changes", "clean", "failed"} :
          runner' = [Ran(runner, "git status", st # "failed") EXCEPT
                        !.pc = "finalize",
                        !.preFinalizeStatus = (st = "changes")]
    /\ UNCHANGED <<fnArgs, fnResult, sessionVars>>

FinalizeOutcomes ==
    {"add-failed", "commit-failed", "no-remote", "pushed", "push-failed"}

\* A finalize block for which a commit without a remote is good enough.
commitAndPushIgnoringMissingRemote(r, o) ==
    LET failed(q) == [q EXCEPT !.finalizeSucceeded = FALSE]
        added     == Ran(r, "git add", TRUE)
        committed == Ran(added, "git commit", TRUE)
    IN  CASE o = "add-failed"    -> failed(Ran(r, "git add", FALSE))
          [] o = "commit-failed" -> failed(Ran(added, "git commit", FALSE))
          [] o = "no-remote"     -> committed
          [] o = "pushed"        -> Ran(committed, "git push", TRUE)
          [] o = "push-failed"   -> failed(Ran(committed, "git push", FALSE))

\* git add -A; git commit; git push to origin or the first remote.  A
\* command that fails ends the block; no remote fails the finalize stage.
commitAndPush(r, o) ==
    LET failed(q) == [q EXCEPT !.finalizeSucceeded = FALSE]
        added     == Ran(r, "git add", TRUE)
        committed == Ran(added, "git commit", TRUE)
    IN  CASE o = "add-failed"    -> failed(Ran(r, "git add", FALSE))
          [] o = "commit-failed" -> failed(Ran(added, "git commit", FALSE))
          [] o = "no-remote"     -> failed(committed)
          [] o = "pushed"        -> Ran(committed, "git push", TRUE)
          [] o = "push-failed"   -> failed(Ran(committed, "git push", FALSE))

\* A finalize stage that commits whatever the verification said.
RunnerFinalizeIgnoringVerification ==
    /\ runner.pc = "finalize"
    /\ IF runner.codexSucceeded
       THEN IF runner.preFinalizeStatus
            THEN \E o \in FinalizeOutcomes :
                    runner' = At(commitAndPush(runner, o), "summary")
            ELSE runner' = At(runner, "summary")
       ELSE runner' = [runner EXCEPT !.pc = "summary",
                                     !.finalizeSucceeded = FALSE]
    /\ UNCHANGED <<fnArgs, fnResult, sessionVars>>

\* if (codexSucceeded && verifySucceeded) { if (preFinalizeStatus.trim())
\* { commit and push } else { skipped: no changes } } else { skipped }
RunnerFinalize ==
    /\ runner.pc = "finalize"
    /\ IF runner.codexSucceeded /\ runner.verifySucceeded
       THEN IF runner.preFinalizeStatus
            THEN \E o \in FinalizeOutcomes :
                    runner' = At(commitAndPush(runner, o), "summary")
            ELSE runner' = At(runner, "summary")
       ELSE runner' = [runner EXCEPT !.pc = "summary",
                                     !.finalizeSucceeded = FALSE]
    /\ UNCHANGED <<fnArgs, fnResult, sessionVars>>

\* git status and git diff --stat (a failure is recorded as a risk), the
\* summary is logged and { ok } returned.
RunnerSummary ==
    /\ runner.pc = "summary"
    /\ \E okStatus \in BOOLEAN, okDiff \in BOOLEAN :
          runner' =
             [Ran(Ran(runner, "git status", okStatus), "git diff", okDiff)
                EXCEPT !.pc = "returned",
                       !.summaryLogged = TRUE,
                       !.result = Some([ok |-> /\ runner.codexSucceeded
                                               /\ runner.verifySucceeded
                                               /\ runner.finalizeSucceeded])]
    /\ UNCHANGED <<fnArgs, fnResult, sessionVars>>

RunnerNext ==
    \/ RunnerStat
    \/ RunnerResolveVerify
    \/ RunnerEnsureGitRepo
    \/ RunnerEnsureClean
    \/ RunnerPull
    \/ RunnerResolveBranch
    \/ RunnerPullOnBranch
    \/ RunnerSession
    \/ RunnerVerify
    \/ RunnerPreFinalizeStatus
    \/ RunnerFinalize
    \/ RunnerSummary

\* One invocation of codexRunCommand, from its first statement to its
\* return or throw.
RunnerSpec == RunnerInit /\ [][RunnerNext]_vars

\* ------------------------------------------------------------------ claims

IsPrefix(s, t) == Len(s) <= Len(t) /\ SubSeq(t, 1, Len(s)) = s

RECURSIVE Concat(_)
Concat(ss) == IF ss = <<>> THEN <<>> ELSE Head(ss) \o Concat(Tail(ss))

\* The events recorded with source manual.
ManualEvents == SelectSeq(promptEvents, LAMBDA ev : ev.source = "manual")

\* A step of onChunk that took in a non-empty chunk.
ChunkStep == received' # received

\* The tail that the onChunk of this step hands to the classifier.
TailClassified ==
    SliceLast(detectTail \o normalizeForPromptDetection(Last(received')),
              MAX_DETECTION_TAIL)

\* Nothing was dispatched in this step: no handler started, no policy or
\* responder consulted, nothing written, nothing recorded.
NothingDispatched ==
    /\ promptHandling' = promptHandling
    /\ handlerPrompt' = handlerPrompt
    /\ handlerThrown' = handlerThrown
    /\ responderCalls' = responderCalls
    /\ stdinWrites' = stdinWrites
    /\ promptEvents' = promptEvents
    /\ lastPromptSignature' = lastPromptSignature
    /\ lastPromptAtMs' = lastPromptAtMs
    /\ suppressUserOutput' = suppressUserOutput
    /\ dispatched' = dispatched

\* C1 step: the events and the writes only grow, by one of each together,
\* the write being the recorded response with its newline; an auto answer
\* is written by the step that dispatches the prompt and a manual answer by
\* the step that resumes the handler in flight, and either step ends the
\* handler's body, so one dispatch writes at most once.
C1_Step ==
    /\ IsPrefix(promptEvents, promptEvents')
    /\ IsPrefix(stdinWrites, stdinWrites')
    /\ Len(promptEvents') - Len(promptEvents) = Len(stdinWrites') - Len(stdinWrites)
    /\ Len(promptEvents') - Len(promptEvents) <= 1
    /\ Len(promptEvents') > Len(promptEvents) =>
          LET ev == Last(promptEvents')
          IN  /\ Last(stdinWrites') = ensureTrailingNewline(ev.response)
              /\ promptHandling' = "fulfilled"
              /\ \/ /\ promptHandling = "null"
                    /\ ev.source = "auto"
                 \/ /\ promptHandling = "awaiting"
                    /\ ev.source = "manual"
                    /\ ev.kind = handlerPrompt[1].kind
                    /\ ev.text = handlerPrompt[1].text

\* C1: no prompt is answered twice. In every reachable state there are as
\* many prompt events as responses written to the child's input, every
\* step appends at most one of each together and changes no earlier one,
\* and one dispatched prompt causes at most one write.
C1_NoPromptAnsweredTwice ==
    /\ [](Len(promptEvents) = Len(stdinWrites))
    /\ [][C1_Step]_vars

\* Two prompts have been answered, the first by the manual responder.
C1_Witness ==
    /\ Len(promptEvents) = 2
    /\ Len(stdinWrites) = 2
    /\ promptEvents[1].source = "manual"

\* The responder calls that have not settled.
OutstandingResponderCalls ==
    Len(responderCalls) - Len(ManualEvents)
        - (IF handlerThrown = Some("responder-rejected") THEN 1 ELSE 0)

\* C2: at most one prompt-handling task is in flight at any instant. At
\* most one responder call is outstanding, and exactly when a handler
\* awaits it; a chunk that arrives while a handler is running starts no
\* second handler: it dispatches nothing.
C2_OneHandlerInFlight ==
    /\ [](OutstandingResponderCalls = (IF promptHandling = "awaiting" THEN 1 ELSE 0))
    /\ [][(ChunkStep /\ promptHandling # "null") => NothingDispatched]_vars

\* A handler awaits the responder and the tail, extended by a chunk that
\* arrived meanwhile, shows a prompt with another signature than the one
\* it handles.
C2_Witness ==
    /\ promptHandling = "awaiting"
    /\ suppressedOutput # <<>>
    /\ detectInteractivePrompt(detectTail) # None
    /\ SignatureOf(detectInteractivePrompt(detectTail)[1]) # lastPromptSignature

\* C3 as first stated: a detection whose signature equals that of any
\* dispatch made less than 2000 ms before dispatches nothing.
C3_AnyRepeatWithinWindowNotDispatched ==
    [][(/\ ChunkStep
        /\ detectInteractivePrompt(TailClassified) # None
        /\ \E i \in 1..Len(dispatched) :
              /\ dispatched[i].signature
                    = SignatureOf(detectInteractivePrompt(TailClassified)[1])
              /\ now - dispatched[i].atMs < DEDUP_WINDOW_MS)
       => NothingDispatched]_vars

\* C3: a detection whose signature equals the last dispatched one, less
\* than 2000 ms after that dispatch, dispatches nothing: the policy and the
\* responder are not consulted, nothing is written to the child's input
\* and no prompt event is appended.
C3_RepeatWithinWindowNotDispatched ==
    [][(/\ ChunkStep
        /\ detectInteractivePrompt(TailClassified) # None
        /\ SignatureOf(detectInteractivePrompt(TailClassified)[1])
              = lastPromptSignature
        /\ now - lastPromptAtMs < DEDUP_WINDOW_MS)
       => NothingDispatched]_vars

\* One prompt was answered; a second chunk shows, with another text of
\* the same signature, a prompt that could be handled, within the window.
C3_Witness ==
    /\ Len(promptEvents) = 1
    /\ Len(received) = 2
    /\ promptHandling = "null" /\ promptError = None /\ runStdin
    /\ detectInteractivePrompt(detectTail) # None
    /\ detectInteractivePrompt(detectTail)[1].text # promptEvents[1].text
    /\ SignatureOf(detectInteractivePrompt(detectTail)[1]) = lastPromptSignature
    /\ now - lastPromptAtMs < DEDUP_WINDOW_MS
    /\ now > lastPromptAtMs


\* The detection window of a tail: its last four non-empty lines, joined.
WindowOf(tail) == JoinSpace(RecentLines(tail))

\* C4: in balanced mode a confirmation prompt whose detection window names
\* a high-risk term is never answered "y" automatically: the step that
\* classifies it records no auto event and writes nothing.
C4_BalancedNeverAutoApprovesHighRisk ==
    [][(/\ ChunkStep
        /\ autoAnswer = "balanced"
        /\ detectInteractivePrompt(TailClassified) # None
        /\ detectInteractivePrompt(TailClassified)[1].kind = "confirm"
        /\ HIGH_RISK_CONFIRM_PATTERN(WindowOf(TailClassified)))
       => /\ promptEvents' = promptEvents
          /\ stdinWrites' = stdinWrites]_vars

\* The text of the batches handed to the observer, in order.
ObservedText == Concat([i \in 1..Len(observed) |-> observed[i].text])

\* The chunks that arrived since the last responder call was made.
ArrivedSinceResponderCall ==
    Concat(SubSeq(received, Last(responderCalls).received + 1, Len(received)))

\* A step in which the handler in flight records its manual answer.
ManualAnswerStep ==
    /\ promptHandling = "awaiting"
    /\ Len(promptEvents') = Len(promptEvents) + 1

\* C5: when a manual prompt resolves, the chunks that arrived during the
\* suppression are handed to the observer exactly once, in arrival order,
\* as one batch, after the resolving event is recorded. While the responder
\* is awaited the buffer holds exactly those chunks and the observer got
\* none of them; the step that records the answer makes one observer call
\* carrying the whole buffer, made with the event already recorded, and
\* leaves the buffer empty.
C5_SuppressedOutputFlushedOnce ==
    /\ [](promptHandling = "awaiting" =>
            /\ suppressedOutput = ArrivedSinceResponderCall
            /\ ObservedText \o suppressedOutput = Concat(received))
    /\ [][ManualAnswerStep =>
            /\ suppressedOutput' = <<>>
            /\ suppressUserOutput' = FALSE
            /\ IF suppressedOutput = <<>>
               THEN observed' = observed
               ELSE observed' =
                      Append(observed, [text |-> suppressedOutput,
                                        events |-> Len(promptEvents')])]_vars

\* A manual answer was just recorded and the two chunks that arrived
\* during the suppression were handed over as one batch.
C5_Witness ==
    /\ promptHandling = "fulfilled"
    /\ Len(received) = 3
    /\ Len(promptEvents) = 1
    /\ promptEvents[1].source = "manual"
    /\ Len(observed) = 2
    /\ observed[2] = [text |-> received[2] \o received[3], events |-> 1]

\* C6: the suppressed output buffer is non-empty only while a manual
\* responder call is outstanding.
C6_BufferOnlyWhileResponderOutstanding ==
    suppressedOutput # <<>> => promptHandling = "awaiting"

\* The session completed after a responder call during which output
\* arrived, and the responder rejected.
C6_Witness ==
    /\ sessionPc = "done"
    /\ Len(responderCalls) = 1
    /\ Len(received) > responderCalls[1].received
    /\ handlerThrown = Some("responder-rejected")
    /\ suppressedOutput = <<>>

\* A step that dispatches a prompt.
DispatchStep == Len(dispatched') = Len(dispatched) + 1

\* C7: when a prompt is deferred and no responder is configured or the
\* responder rejects, the error becomes the session's fatal prompt error
\* and cancellation is requested, once per session. A deferred dispatch
\* without a responder throws at once; what the handler threw is recorded
\* by the next step of the handler, which requests the cancellation; and
\* there is one cancellation request exactly when an error is recorded.
C7_FatalPromptErrorCancelsOnce ==
    /\ [](/\ cancelRequests = (IF promptError # None THEN 1 ELSE 0)
          /\ promptError # None => promptError = handlerThrown
          /\ handlerThrown # None =>
                \/ promptHandling = "rejected" /\ promptError = None
                \/ promptError = handlerThrown)
    /\ [][/\ (/\ DispatchStep
              /\ resolveAutoResponse(autoAnswer, handlerPrompt'[1]) = None
              /\ ~hasResponder)
             => (handlerThrown' = Some("no-responder") /\ promptHandling' = "rejected")
          /\ (promptHandling = "awaiting" /\ promptHandling' = "rejected")
             => handlerThrown' = Some("responder-rejected")
          /\ (promptHandling = "rejected" /\ promptHandling' # "rejected")
             => (/\ promptError' = handlerThrown
                 /\ cancelRequests' = cancelRequests + 1)]_vars

\* A fatal prompt error is recorded, one cancellation was requested, and
\* the tail has since come to show a prompt of another signature.
C7_Witness ==
    /\ promptError # None
    /\ cancelRequests = 1
    /\ promptHandling = "null"
    /\ Len(received) > 1
    /\ detectInteractivePrompt(detectTail) # None
    /\ SignatureOf(detectInteractivePrompt(detectTail)[1]) # lastPromptSignature

\* C8: if a fatal prompt error was recorded, the session call rejects with
\* that error and returns no result, whatever wait() resolved to.
C8_FatalPromptErrorTakesPrecedence ==
    (sessionPc = "done" /\ promptError # None) =>
        outcome = Some([status |-> "rejected", error |-> promptError[1]])

\* The process exited cleanly and the session call rejected.
C8_Witness ==
    /\ sessionPc = "done"
    /\ promptError # None
    /\ exit = Some([reason |-> "exit", exitCode |-> 0])
    /\ outcome # None /\ outcome[1].status = "rejected"

\* C9: the session call does not settle while a prompt handler is in
\* flight. The step that settles it starts and ends with no handler in
\* flight, and once it has settled nothing more happens to the prompt
\* state: a resolved call carries every event recorded and no fatal
\* error exists, a rejected call carries the fatal error.
C9_SessionWaitsForHandler ==
    /\ [](outcome # None =>
            /\ promptHandling = "null"
            /\ outcome[1].status = "resolved" =>
                  (outcome[1].result.promptEvents = promptEvents /\ promptError = None)
            /\ outcome[1].status = "rejected" =>
                  promptError = Some(outcome[1].error))
    /\ [][(outcome = None /\ outcome' # None) => promptHandling = "null"]_vars

\* wait() has resolved while the handler awaits the responder: the session
\* call has not settled.
C9_Witness ==
    /\ sessionPc = "awaitingHandler"
    /\ promptHandling = "awaiting"
    /\ exit # None
    /\ outcome = None

\* C10: a process-level failure is reported as data. When no fatal prompt
\* error was recorded the session call resolves with a result whose exit
\* descriptor is the one wait() resolved to and whose prompt events are
\* all the events recorded.
C10_ProcessFailureReportedAsData ==
    (sessionPc = "done" /\ promptError = None) =>
        /\ outcome # None
        /\ outcome[1].status = "resolved"
        /\ outcome[1].result.exit = exit[1]
        /\ outcome[1].result.promptEvents = promptEvents

\* The responder answered "n", the process exited with code 2 and the
\* session call resolved.
C10_Witness ==
    /\ sessionPc = "done"
    /\ outcome # None /\ outcome[1].status = "resolved"
    /\ outcome[1].result.exit = [reason |-> "exit", exitCode |-> 2]
    /\ Len(promptEvents) = 1
    /\ promptEvents[1].source = "manual"
    /\ promptEvents[1].response = <<"n">>

\* The smaller of two numbers.
Min(a, b) == IF a <= b THEN a ELSE b

\* The last min(length, cap) tokens of a text.
TrueSuffix(all, cap) ==
    SubSeq(all, Len(all) - Min(Len(all), cap) + 1, Len(all))

\* C11: after any sequence of output chunks, in any suppression state, the
\* transcript has at most MAX_TRANSCRIPT_CHARS tokens and is the last
\* min(total length, cap) tokens of the concatenation, in arrival order, of
\* all sanitized output received.
C11_TranscriptIsCappedSuffix ==
    /\ Len(transcript) <= MAX_TRANSCRIPT_CHARS
    /\ transcript = TrueSuffix(Concat(received), MAX_TRANSCRIPT_CHARS)

\* More output than the cap was received, the last of it while output was
\* suppressed, and the front of it is gone from the transcript.
C11_Witness ==
    /\ Len(Concat(received)) > MAX_TRANSCRIPT_CHARS
    /\ Len(transcript) = MAX_TRANSCRIPT_CHARS
    /\ suppressUserOutput
    /\ suppressedOutput # <<>>
    /\ Head(transcript) # Head(Concat(received))

\* The normalized output of the chunks received after the first k, joined.
NormalizedSince(k) ==
    Concat([i \in 1..(Len(received) - k) |->
               normalizeForPromptDetection(received[k + i])])

\* C12 as first stated: in every reachable state the detection tail has at
\* most MAX_DETECTION_TAIL tokens and is the last min(total length, cap)
\* tokens of all normalized output seen so far.
C12_TailIsSuffixOfAllOutput ==
    /\ Len(detectTail) <= MAX_DETECTION_TAIL
    /\ detectTail = TrueSuffix(NormalizedSince(0), MAX_DETECTION_TAIL)

\* C12: in every reachable state the detection tail has at most
\* MAX_DETECTION_TAIL tokens and is the last min(length, cap) tokens of the
\* normalized output received since the tail was last reset, that is since
\* the last response was written to the child's input (of all output when
\* none was written).
C12_TailIsCappedSuffixSinceReset ==
    /\ Len(detectTail) <= MAX_DETECTION_TAIL
    /\ detectTail = TrueSuffix(NormalizedSince(tailSince), MAX_DETECTION_TAIL)

\* A prompt was answered, and more output than the cap has arrived since:
\* the tail is full and holds neither the answered prompt nor the front of
\* what came after it.
C12_Witness ==
    /\ tailSince > 0
    /\ Len(promptEvents) > 0
    /\ Len(NormalizedSince(tailSince)) > MAX_DETECTION_TAIL
    /\ Len(detectTail) = MAX_DETECTION_TAIL

\* C13: the log stream is closed on every path by which the session call
\* finishes once the log has been opened: normal completion, a fatal prompt
\* error, a failure of wait() and a failure of the supervisor's spawn.
C13_LogStreamClosedOnEveryPath ==
    sessionPc = "done" => ~streamOpen

\* C14: every non-empty sanitized chunk is appended to the log, to the
\* transcript and to the detection tail in the step in which it arrives, in
\* arrival order, whatever the suppression state. The log is the
\* concatenation of the chunks received; a chunk's step extends the log by
\* the chunk, the transcript by the chunk up to its cap, and the tail by the
\* normalized chunk up to its cap (only a step that also answers the prompt
\* it completes leaves the tail empty); and while output is suppressed the
\* step forwards nothing and the buffer takes the chunk.
C14_ChunksAbsorbedOnArrival ==
    /\ [](logFile = Concat(received))
    /\ [][ChunkStep =>
            LET chunk == Last(received')
            IN  /\ received' = Append(received, chunk)
                /\ logFile' = logFile \o chunk
                /\ transcript' =
                      TrueSuffix(transcript \o chunk, MAX_TRANSCRIPT_CHARS)
                /\ detectTail' =
                      IF stdinWrites' # stdinWrites THEN <<>>
                      ELSE TrueSuffix(
                               detectTail \o normalizeForPromptDetection(chunk),
                               MAX_DETECTION_TAIL)
                /\ suppressUserOutput =>
                      /\ stdinWrites' = stdinWrites
                      /\ observed' = observed
                      /\ suppressedOutput' = suppressedOutput \o chunk]_vars

\* A manual response is pending and two chunks have arrived meanwhile: the
\* log, the transcript and the tail hold them, the observer got neither.
C14_Witness ==
    /\ promptHandling = "awaiting"
    /\ suppressUserOutput
    /\ Len(received) = Last(responderCalls).received + 2
    /\ logFile = Concat(received)
    /\ transcript = TrueSuffix(Concat(received), MAX_TRANSCRIPT_CHARS)
    /\ detectTail = TrueSuffix(NormalizedSince(tailSince), MAX_DETECTION_TAIL)
    /\ Len(observed) = Last(responderCalls).received

\* The canonical response of a prompt: its safe response, the empty string
\* when it has none.
Canonical(prompt) ==
    IF "safeAutoResponse" \in DOMAIN prompt THEN prompt.safeAutoResponse ELSE <<>>

\* The decision table: the response of a mode to a prompt, None to defer.
DecisionTable(mode, prompt) ==
    CASE mode = "off" -> None
      [] mode = "safe" /\ prompt.kind = "press-enter" -> Some(Canonical(prompt))
      [] mode = "safe" /\ prompt.kind = "confirm" -> None
      [] mode = "safe" /\ prompt.kind = "choice" -> None
      [] mode = "balanced" /\ prompt.kind = "press-enter" ->
            Some(Canonical(prompt))
      [] mode = "balanced" /\ prompt.kind = "confirm" ->
            IF HIGH_RISK_CONFIRM_PATTERN(prompt.text) THEN None ELSE Some(<<"y">>)
      [] mode = "balanced" /\ prompt.kind = "choice" -> None
      [] mode = "yolo" /\ prompt.kind = "press-enter" -> Some(Canonical(prompt))
      [] mode = "yolo" /\ prompt.kind = "confirm" -> Some(<<"y">>)
      [] mode = "yolo" /\ prompt.kind = "choice" -> Some(<<"1">>)

\* C15: for every mode and every prompt kind the policy returns what the
\* decision table says: off always defers; safe answers only press-enter,
\* with its canonical response; balanced answers press-enter, answers
\* confirm with "y" unless the prompt text matches the high-risk lexicon
\* and then defers, and defers choice; yolo answers press-enter with its
\* canonical response, confirm with "y" and choice with "1".
C15_PolicyMatchesDecisionTable ==
    fnArgs.fn = "resolveAutoResponse" =>
        \A i \in 1..Len(fnResult) :
            fnResult[i] = DecisionTable(fnArgs.mode, fnArgs.prompt)

\* The policy was called in balanced mode on a confirmation whose text
\* names a high-risk term, and deferred.
C15_Witness ==
    /\ fnArgs.fn = "resolveAutoResponse"
    /\ fnArgs.mode = "balanced"
    /\ fnArgs.prompt.kind = "confirm"
    /\ fnArgs.prompt.text = <<"Delete", " ", "DB", "?">>
    /\ fnResult = <<None>>

\* C16: in yolo mode every dispatched prompt is answered automatically,
\* whether or not a responder is configured: each dispatch has its event,
\* of source auto; the responder is never called; output is never
\* suppressed; nothing is thrown, no fatal prompt error is recorded and no
\* cancellation is requested.
C16_YoloAnswersEveryPrompt ==
    autoAnswer = "yolo" =>
        /\ Len(promptEvents) = Len(dispatched)
        /\ \A i \in 1..Len(promptEvents) : promptEvents[i].source = "auto"
        /\ responderCalls = <<>>
        /\ ~suppressUserOutput
        /\ suppressedOutput = <<>>
        /\ promptHandling \in {"null", "fulfilled"}
        /\ handlerThrown = None
        /\ promptError = None
        /\ cancelRequests = 0

\* In yolo mode without a responder a choice and a confirmation that names
\* a high-risk term were both answered.
C16_Witness ==
    /\ autoAnswer = "yolo"
    /\ ~hasResponder
    /\ Len(promptEvents) = 2
    /\ \E i \in 1..2 : promptEvents[i].kind = "choice"
    /\ \E i \in 1..2 :
          /\ promptEvents[i].kind = "confirm"
          /\ HIGH_RISK_CONFIRM_PATTERN(promptEvents[i].text)

\* The events recorded with source auto.
AutoEvents == SelectSeq(promptEvents, LAMBDA ev : ev.source = "auto")

\* C17: every event of source auto is one the mode permits, in every
\* reachable state. In off mode there is none: each answered prompt has
\* source manual, is the prompt the responder was called with and carries
\* a response of the responder. In safe mode the auto events are of kind
\* press-enter only; in balanced mode none is of kind choice.
C17_AutoEventsPermittedByMode ==
    /\ autoAnswer = "off" =>
          /\ AutoEvents = <<>>
          /\ Len(promptEvents) <= Len(responderCalls)
          /\ \A i \in 1..Len(promptEvents) :
                /\ promptEvents[i].source = "manual"
                /\ promptEvents[i].kind = responderCalls[i].prompt.kind
                /\ promptEvents[i].text = responderCalls[i].prompt.text
                /\ promptEvents[i].response \in ResponderAnswers
    /\ autoAnswer = "safe" =>
          \A i \in 1..Len(AutoEvents) : AutoEvents[i].kind = "press-enter"
    /\ autoAnswer = "balanced" =>
          \A i \in 1..Len(AutoEvents) : AutoEvents[i].kind # "choice"

\* In off mode a press-enter prompt and a confirmation were both answered
\* by the responder.
C17_Witness ==
    /\ autoAnswer = "off"
    /\ Len(promptEvents) = 2
    /\ promptEvents[1].kind = "press-enter"
    /\ promptEvents[1].source = "manual"
    /\ promptEvents[2].kind = "confirm"
    /\ promptEvents[2].source = "manual"

\* The window satisfies the confirm pattern, in either of its two forms.
ConfirmPattern(w) == ConfirmIndicatorPattern(w) \/ ConfirmTrailingPattern(w)

\* C18: the classifier applies its checks in the order press-enter, confirm,
\* choice, and the first match wins. A window that satisfies the
\* press-enter pattern is classified press-enter, with the empty canonical
\* response, also when it satisfies the confirm or the choice pattern; a
\* window that satisfies confirm and not press-enter is classified confirm,
\* also when it satisfies choice; a window that satisfies only choice is
\* classified choice.
C18_FirstMatchWins ==
    fnArgs.fn = "detectInteractivePrompt" =>
        \A i \in 1..Len(fnResult) :
            LET w == WindowOf(fnArgs.rawTail)
            IN  /\ PressEnterPattern(w) =>
                      /\ fnResult[i] # None
                      /\ fnResult[i][1].kind = "press-enter"
                      /\ fnResult[i][1].safeAutoResponse = <<>>
                /\ (~PressEnterPattern(w) /\ ConfirmPattern(w)) =>
                      /\ fnResult[i] # None
                      /\ fnResult[i][1].kind = "confirm"
                /\ (~PressEnterPattern(w) /\ ~ConfirmPattern(w)
                        /\ ChoicePattern(w)) =>
                      /\ fnResult[i] # None
                      /\ fnResult[i][1].kind = "choice"

\* The classifier was called on a tail whose window satisfies all three
\* patterns, and returned press-enter.
C18_Witness ==
    /\ fnArgs.fn = "detectInteractivePrompt"
    /\ PressEnterPattern(WindowOf(fnArgs.rawTail))
    /\ ConfirmIndicatorPattern(WindowOf(fnArgs.rawTail))
    /\ ChoicePattern(WindowOf(fnArgs.rawTail))
    /\ Len(fnResult) = 1
    /\ fnResult[1] # None
    /\ fnResult[1][1].kind = "press-enter"

\* The window holds a confirmation verb and, somewhere after it, a
\* bracketed yes/no indicator.
VerbThenYesNo(w) ==
    \E i \in 1..Len(w) : \E e \in VerbEnds(w, i) : \E j \in (e + 1)..Len(w) :
        IsYesNo(w[j])

\* The window ends with a confirmation verb and a question mark or colon.
VerbThenMarkAtEnd(w) ==
    \E i \in 1..Len(w) : \E e \in VerbEnds(w, i) :
        LET j == SkipSpaces(w, e + 1)
        IN  /\ j <= Len(w)
            /\ w[j] \in {"?", ":"}
            /\ SkipSpaces(w, j + 1) = Len(w) + 1

\* C19: the classifier returns kind confirm only when the window holds a
\* confirmation verb followed by a bracketed yes/no indicator or by a
\* question mark or colon at the end of the window; a window that merely
\* ends with such a verb is not classified confirm.
C19_ConfirmNeedsIndicatorOrMark ==
    fnArgs.fn = "detectInteractivePrompt" =>
        \A i \in 1..Len(fnResult) :
            (fnResult[i] # None /\ fnResult[i][1].kind = "confirm") =>
                \/ VerbThenYesNo(WindowOf(fnArgs.rawTail))
                \/ VerbThenMarkAtEnd(WindowOf(fnArgs.rawTail))

\* The non-empty trimmed lines of a tail.
LinesOf(rawTail) == NonEmptyTrimmedLines(normalizeForPromptDetection(rawTail))

\* The last four non-empty trimmed lines of a tail, as a tail of their own.
LastFourLinesOf(rawTail) == JoinLines(TrueSuffix(LinesOf(rawTail), 4))

\* C20: classification considers only the last four non-empty trimmed lines
\* of the tail. The result is the result on those four lines alone; when
\* they satisfy none of the patterns there is no match, whatever cue an
\* earlier line holds; and the text of a match is the last non-empty line.
C20_OnlyLastFourLinesConsidered ==
    fnArgs.fn = "detectInteractivePrompt" =>
        \A i \in 1..Len(fnResult) :
            LET four == LastFourLinesOf(fnArgs.rawTail)
                w == JoinSpace(TrueSuffix(LinesOf(fnArgs.rawTail), 4))
            IN  /\ fnResult[i] = detectInteractivePrompt(four)
                /\ (~PressEnterPattern(w) /\ ~ConfirmPattern(w)
                        /\ ~ChoicePattern(w)) => fnResult[i] = None
                /\ fnResult[i] # None =>
                      fnResult[i][1].text = Last(LinesOf(fnArgs.rawTail))

\* The classifier was called on a tail of five non-empty lines whose first
\* line alone is a prompt, and returned no match.
C20_Witness ==
    /\ fnArgs.fn = "detectInteractivePrompt"
    /\ Len(LinesOf(fnArgs.rawTail)) = 5
    /\ detectInteractivePrompt(LinesOf(fnArgs.rawTail)[1]) # None
    /\ fnResult = <<None>>

CueWords ==
    ConfirmVerbs \cup {"press", "are", "sure", "choice", "option"}

\* The tail holds none of the recognized cues.
NoCue(tail) == \A i \in 1..Len(tail) : ToLowerCase(tail[i]) \notin CueWords

\* C22: when the detection tail holds none of the recognized cues, an empty
\* tail included, classification yields no match and prompt handling does
\* nothing: no error is raised, the dedup signature and time are unchanged,
\* nothing is written to the child's input, no event is appended and
\* suppression does not start.
C22_NoCueNoHandling ==
    [][(ChunkStep /\ NoCue(TailClassified)) =>
          /\ detectInteractivePrompt(TailClassified) = None
          /\ NothingDispatched
          /\ promptError' = promptError
          /\ cancelRequests' = cancelRequests]_vars

\* Output has arrived with the child's input ready and no handler running,
\* and the tail is still empty: nothing was dispatched.
C22_Witness ==
    /\ runStdin
    /\ promptHandling = "null"
    /\ promptError = None
    /\ Len(received) = 2
    /\ detectTail = <<>>
    /\ tailSince = 0
    /\ dispatched = <<>>
    /\ lastPromptSignature = <<>>

\* The commands codexRunCommand has run so far, and those before the i-th.
RanCmds == { runner.ran[i].cmd : i \in 1..Len(runner.ran) }
RanBefore(i, cmd) == { j \in 1..(i - 1) : runner.ran[j].cmd = cmd }

\* codexRunCommand has returned or thrown.
RunnerFinished == runner.pc \in {"returned", "thrown"}

\* C23: every invocation of codexRunCommand has logged the SESSION SUMMARY
\* when it finishes, whatever the outcome of preflight, session,
\* verification and commit/push.
C23_SummaryAlwaysEmitted ==
    RunnerFinished => runner.summaryLogged

\* C24: in an existing git repository with uncommitted changes the command
\* never gets past the clean check: it stands in preflight or has thrown,
\* and no Codex session, fetch, pull, checkout, add, commit or push was run.
C24_DirtyTreeStopsBeforeSession ==
    (runner.isGitRepo /\ runner.dirty) =>
       /\ runner.pc \in {"stat", "resolveVerify", "ensureGitRepo",
                         "ensureClean", "thrown"}
       /\ runner.session = None
       /\ runner.result = None
       /\ RanCmds \subseteq {"git status"}

\* The clean check of a dirty repository ran and the command has thrown.
C24_Witness ==
    /\ runner.isGitRepo /\ runner.dirty
    /\ runner.pc = "thrown"
    /\ runner.ran = <<[cmd |-> "git status", ok |-> TRUE]>>

\* C25: git add, commit and push are run only after every verification
\* command has run, only if the session resolved with exit reason exit and
\* code 0 and every verification command passed; push is run only after a
\* commit that succeeded.
C25_CommitOnlyAfterSuccess ==
    \A i \in 1..Len(runner.ran) :
       runner.ran[i].cmd \in {"git add", "git commit", "git push"} =>
          /\ Cardinality(RanBefore(i, "verify")) = runner.nVerify
          /\ \A j \in RanBefore(i, "verify") : runner.ran[j].ok
          /\ runner.session =
                Some([status |-> "resolved",
                      exit |-> [reason |-> "exit", exitCode |-> 0]])
          /\ RanBefore(i, "codex") # {}
          /\ runner.ran[i].cmd = "git commit" =>
                \E j \in RanBefore(i, "git add") : runner.ran[j].ok
          /\ runner.ran[i].cmd = "git push" =>
                \E j \in RanBefore(i, "git commit") : runner.ran[j].ok

\* A run of the largest number of verification commands was pushed.
C25_Witness ==
    /\ runner.pc = "returned"
    /\ runner.nVerify = MaxVerify
    /\ \E i \in 1..Len(runner.ran) :
          runner.ran[i].cmd = "git push" /\ runner.ran[i].ok

\* The prompt that the onChunk of this step classifies.
PromptClassified == detectInteractivePrompt(TailClassified)[1]

\* C26: when the policy returns a response for the prompt a step
\* dispatches, that step writes the response followed by a newline to the
\* child's input (a bare newline for press-enter), leaves the detection
\* tail empty and appends one event of source auto carrying the policy's
\* response; the responder is not called, suppression is off before and
\* after, nothing is buffered, and the handler's body has ended.
C26_AutoAnswerWritesAndRecords ==
    [][(DispatchStep /\ resolveAutoResponse(autoAnswer, PromptClassified) # None) =>
          LET response == resolveAutoResponse(autoAnswer, PromptClassified)[1]
          IN  /\ stdinWrites' = Append(stdinWrites, response \o <<"\n">>)
              /\ PromptClassified.kind = "press-enter" =>
                    Last(stdinWrites') = <<"\n">>
              /\ detectTail' = <<>>
              /\ promptEvents' =
                    Append(promptEvents,
                           [kind |-> PromptClassified.kind,
                            text |-> PromptClassified.text,
                            source |-> "auto", response |-> response,
                            atMs |-> now])
              /\ responderCalls' = responderCalls
              /\ ~suppressUserOutput /\ ~suppressUserOutput'
              /\ suppressedOutput' = <<>>
              /\ promptHandling' = "fulfilled"]_vars

\* In safe mode, with a responder at hand, a press-enter prompt was just
\* answered with a bare newline and the responder was never called.
C26_Witness ==
    /\ autoAnswer = "safe" /\ hasResponder
    /\ promptHandling = "fulfilled"
    /\ Len(promptEvents) = 1
    /\ promptEvents[1].kind = "press-enter"
    /\ promptEvents[1].source = "auto"
    /\ promptEvents[1].response = <<>>
    /\ stdinWrites = << <<"\n">> >>
    /\ detectTail = <<>>
    /\ responderCalls = <<>>

\* C27: when the manual responder rejects, that step ends suppression and
\* hands the output buffered during the wait to the observer as one batch
\* (none when nothing was buffered), writes nothing to the child's input,
\* appends no event and leaves the detection tail as it is; from then on
\* the observer has received every chunk once, in arrival order.
C27_RejectedResponderStillFlushes ==
    /\ [](handlerThrown = Some("responder-rejected") =>
            /\ ~suppressUserOutput
            /\ suppressedOutput = <<>>
            /\ ObservedText = Concat(received))
    /\ [][(promptHandling = "awaiting" /\ promptHandling' = "rejected") =>
            /\ suppressUserOutput /\ ~suppressUserOutput'
            /\ suppressedOutput' = <<>>
            /\ observed' =
                  IF suppressedOutput = <<>> THEN observed
                  ELSE Append(observed, [text |-> suppressedOutput,
                                         events |-> Len(promptEvents)])
            /\ stdinWrites' = stdinWrites
            /\ promptEvents' = promptEvents
            /\ detectTail' = detectTail]_vars

\* The responder has just rejected after two chunks arrived during the
\* wait: they were handed over as one batch, nothing was written or
\* recorded and the tail still holds the prompt.
C27_Witness ==
    /\ promptHandling = "rejected"
    /\ handlerThrown = Some("responder-rejected")
    /\ Len(received) = responderCalls[1].received + 2
    /\ Last(observed).text =
          received[Len(received) - 1] \o received[Len(received)]
    /\ stdinWrites = <<>>
    /\ promptEvents = <<>>
    /\ detectTail # <<>>

\* C28: in the state right after a response is written to the child's
\* input, by the policy or by the responder, the detection tail is empty,
\* so that the classifier finds no prompt in it.
C28_TailEmptyAfterAnswer ==
    [][stdinWrites' # stdinWrites =>
          /\ detectTail' = <<>>
          /\ detectInteractivePrompt(detectTail') = None]_vars

\* The responder's answer was just written: the tail, which held the
\* prompt and what arrived during the wait, is empty.
C28_Witness ==
    /\ promptHandling = "fulfilled"
    /\ Len(stdinWrites) = 1
    /\ promptEvents[1].source = "manual"
    /\ Len(received) > responderCalls[1].received
    /\ detectTail = <<>>
    /\ tailSince = Len(received)

\* C29: once a fatal prompt error is recorded no step dispatches a
\* prompt, calls the responder, writes to the child's input, appends an
\* event or requests cancellation again, and the error stays the same; a
\* chunk is still appended to the log and, up to the caps, to the
\* transcript and the detection tail, and handed to the observer.
C29_NoHandlingAfterFatalError ==
    [][promptError # None =>
          /\ promptError' = promptError
          /\ dispatched' = dispatched
          /\ responderCalls' = responderCalls
          /\ stdinWrites' = stdinWrites
          /\ promptEvents' = promptEvents
          /\ cancelRequests' = cancelRequests
          /\ lastPromptSignature' = lastPromptSignature
          /\ suppressUserOutput' = suppressUserOutput
          /\ promptHandling' \in {"null", "fulfilled"}
          /\ ChunkStep =>
                LET chunk == Last(received')
                IN  /\ logFile' = logFile \o chunk
                    /\ transcript' =
                          TrueSuffix(transcript \o chunk, MAX_TRANSCRIPT_CHARS)
                    /\ detectTail' = TailClassified
                    /\ observed' = Append(observed,
                                          [text |-> chunk,
                                           events |-> Len(promptEvents)])]_vars

\* After the fatal error a chunk arrived that shows a prompt the mode
\* would answer by itself: it was logged and forwarded, and not handled.
C29_Witness ==
    /\ promptError # None
    /\ promptHandling = "null"
    /\ runStdin
    /\ Len(dispatched) = 1
    /\ Len(received) = 2
    /\ Len(observed) = 2
    /\ logFile = Concat(received)
    /\ detectInteractivePrompt(detectTail) # None
    /\ resolveAutoResponse(autoAnswer, detectInteractivePrompt(detectTail)[1])
          # None
    /\ stdinWrites = <<>>

\* C30: a heartbeat tick adds one to the poll counter and changes nothing
\* else of the session: transcript, detection tail, suppression flag and
\* buffer, dedup signature and time, events, fatal error, handler, the
\* session call's position, exit and outcome stay as they are.  The
\* counter is never negative and never decreases, it changes only while
\* the interval is set, and the interval is cleared when the session call
\* has completed.
C30_HeartbeatOnlyCounts ==
    /\ [](pollSamples >= 0)
    /\ [](sessionPc = "done" => ~pollActive)
    /\ [][pollSamples' >= pollSamples]_vars
    /\ [][pollSamples' # pollSamples =>
            /\ pollSamples' = pollSamples + 1
            /\ pollActive /\ sessionPc # "done"
            /\ UNCHANGED <<transcript, detectTail, suppressUserOutput,
                           suppressedOutput, lastPromptSignature,
                           lastPromptAtMs, promptEvents, promptError,
                           promptHandling, handlerPrompt, handlerThrown,
                           sessionPc, exit, outcome, pollActive, streamOpen,
                           stdinWrites, observed, logFile, responderCalls,
                           cancelRequests, received, dispatched>>]_vars

\* The heartbeat ticked twice while a handler awaited the responder, and
\* the session has completed with the interval cleared.
C30_Witness ==
    /\ sessionPc = "done"
    /\ pollSamples = 2
    /\ ~pollActive
    /\ Len(responderCalls) = 1
    /\ outcome # None /\ outcome[1].status = "resolved"
    /\ outcome[1].result.pollSamples = 2

\* C31: if the process exits and every responder call settles, the session
\* call completes, resolved with a result or rejected with the fatal
\* prompt error; and whenever it has completed no prompt handler is in
\* flight, suppression is off and the suppressed output buffer is empty.
C31_SessionCompletes ==
    /\ <>(sessionPc = "done")
    /\ [](sessionPc = "done" =>
            /\ outcome # None
            /\ \/ outcome[1].status = "resolved" /\ promptError = None
               \/ /\ outcome[1].status = "rejected"
                  /\ promptError = Some(outcome[1].error)
            /\ promptHandling = "null"
            /\ ~suppressUserOutput
            /\ suppressedOutput = <<>>)

\* The session completed after the process had exited while a handler was
\* awaiting the responder, with output buffered meanwhile.
C31_Witness ==
    /\ sessionPc = "done"
    /\ Len(responderCalls) = 1
    /\ Len(received) > responderCalls[1].received
    /\ Len(promptEvents) = 1
    /\ promptEvents[1].source = "manual"
    /\ promptHandling = "null"
    /\ suppressedOutput = <<>>
    /\ Len(observed) = 2

\* C32: no output is lost, duplicated or reordered towards the observer.
\* In every reachable state the concatenation of everything delivered to
\* the observer, followed by the suppressed output buffer, equals the
\* concatenation of all non-empty sanitized chunks received, in arrival
\* order.
C32_ObserverGetsEveryChunkOnce ==
    ObservedText \o suppressedOutput = Concat(received)

\* One chunk was forwarded and two more are held back while the responder
\* is awaited.
C32_Witness ==
    /\ suppressUserOutput
    /\ Len(received) = 3
    /\ Len(observed) = 1
    /\ observed[1].text = received[1]
    /\ suppressedOutput = received[2] \o received[3]

\* C33: the chunk whose arrival triggers a manual prompt is forwarded
\* before suppression begins. While output is suppressed, the last call of
\* the observer carried the chunk that was being taken in when the
\* responder was called, the observer has got every chunk up to that one,
\* and the buffer holds exactly the chunks that arrived after it.
C33_TriggerChunkForwarded ==
    suppressUserOutput =>
       LET k == Last(responderCalls).received
       IN  /\ k >= 1
           /\ observed # <<>>
           /\ Last(observed).text = received[k]
           /\ ObservedText = Concat(SubSeq(received, 1, k))
           /\ suppressedOutput = Concat(SubSeq(received, k + 1, Len(received)))

\* The second chunk showed a prompt that the responder is now asked about:
\* the observer has got it and nothing is buffered.
C33_Witness ==
    /\ suppressUserOutput
    /\ promptHandling = "awaiting"
    /\ Len(received) = 2
    /\ detectInteractivePrompt(received[2]) # None
    /\ Len(observed) = 2
    /\ observed[2].text = received[2]
    /\ suppressedOutput = <<>>

\* C34: the step that writes a manual response leaves the detection tail
\* empty, whatever arrived while the responder was awaited; the step in
\* which a handler finishes dispatches nothing and leaves the tail as it
\* is; and a prompt is dispatched only by the step of a chunk, classified
\* from the tail of before that step extended by the chunk.  So a prompt
\* that arrived whole during the wait is dispatched only if a later chunk
\* brings it into the tail again.
C34_OutputDuringWaitIsDropped ==
    [][/\ ManualAnswerStep => detectTail' = <<>>
       /\ (promptHandling # "null" /\ promptHandling' = "null") =>
             /\ dispatched' = dispatched
             /\ responderCalls' = responderCalls
             /\ stdinWrites' = stdinWrites
             /\ promptEvents' = promptEvents
             /\ lastPromptSignature' = lastPromptSignature
             /\ detectTail' = detectTail
       /\ DispatchStep =>
             /\ ChunkStep
             /\ promptHandling = "null"
             /\ handlerPrompt' = detectInteractivePrompt(TailClassified)
             /\ Last(dispatched').signature = SignatureOf(PromptClassified)]_vars

\* The responder answered one prompt while a prompt of another signature
\* arrived; the handler has finished, the tail is empty and the second
\* prompt was not dispatched.
C34_Witness ==
    /\ promptHandling = "null"
    /\ Len(promptEvents) = 1
    /\ promptEvents[1].source = "manual"
    /\ Len(received) = responderCalls[1].received + 1
    /\ detectInteractivePrompt(Last(received)) # None
    /\ SignatureOf(detectInteractivePrompt(Last(received))[1])
          # lastPromptSignature
    /\ Len(dispatched) = 1
    /\ detectTail = <<>>

\* C35: a chunk that arrives before spawn has returned is appended to the
\* log, the transcript and the detection tail and handed to the observer,
\* and dispatches nothing and records no signature, whatever it shows; the
\* step in which spawn returns dispatches nothing either and leaves the
\* tail as it is; a prompt is dispatched only by the step of a chunk that
\* arrives once the child's input is set.
C35_NoHandlingBeforeInputReady ==
    [][/\ (ChunkStep /\ ~runStdin) =>
             LET chunk == Last(received')
             IN  /\ NothingDispatched
                 /\ logFile' = logFile \o chunk
                 /\ transcript' =
                       TrueSuffix(transcript \o chunk, MAX_TRANSCRIPT_CHARS)
                 /\ detectTail' = TailClassified
                 /\ observed' = Append(observed,
                                       [text |-> chunk,
                                        events |-> Len(promptEvents)])
       /\ (~runStdin /\ runStdin') =>
             /\ NothingDispatched
             /\ detectTail' = detectTail
             /\ received' = received
       /\ DispatchStep => (ChunkStep /\ runStdin)]_vars

\* A prompt arrived before spawn returned; spawn has returned; the prompt
\* is in the tail, logged and forwarded, and nothing was dispatched.
C35_Witness ==
    /\ runStdin
    /\ Len(received) = 1
    /\ detectInteractivePrompt(detectTail) # None
    /\ dispatched = <<>>
    /\ lastPromptSignature = <<>>
    /\ promptHandling = "null"
    /\ logFile = received[1]
    /\ Len(observed) = 1

\* C36: the dedup window is measured from the last dispatched trigger.  The
\* signature and time kept are always those of the last dispatch; a chunk
\* that shows a prompt while no handler runs, no fatal error is recorded
\* and the child's input is set dispatches exactly when the signature
\* differs from the last dispatched one or DEDUP_WINDOW_MS or more have
\* elapsed since that dispatch, whether or not that prompt was answered;
\* a dispatch records the signature and the time, and a detection that is
\* not dispatched leaves both as they are.
C36_WindowMeasuredFromLastTrigger ==
    /\ [](dispatched # <<>> =>
            /\ lastPromptSignature = Last(dispatched).signature
            /\ lastPromptAtMs = Last(dispatched).atMs)
    /\ [][(/\ ChunkStep
           /\ promptHandling = "null" /\ promptError = None /\ runStdin
           /\ detectInteractivePrompt(TailClassified) # None) =>
             LET signature == SignatureOf(PromptClassified)
             IN  /\ DispatchStep <=>
                       \/ signature # lastPromptSignature
                       \/ now - lastPromptAtMs >= DEDUP_WINDOW_MS
                 /\ DispatchStep =>
                       /\ lastPromptSignature' = signature
                       /\ lastPromptAtMs' = now
                 /\ ~DispatchStep =>
                       /\ lastPromptSignature' = lastPromptSignature
                       /\ lastPromptAtMs' = lastPromptAtMs]_vars

\* The same prompt was dispatched twice, the second time exactly
\* DEDUP_WINDOW_MS after the first, which had been answered.
C36_Witness ==
    /\ Len(dispatched) = 2
    /\ dispatched[1].signature = dispatched[2].signature
    /\ dispatched[2].atMs - dispatched[1].atMs = DEDUP_WINDOW_MS
    /\ Len(promptEvents) = 2

\* A command cmd was run and succeeded.
RanOk(cmd) ==
    \E i \in 1..Len(runner.ran) :
       runner.ran[i].cmd = cmd /\ runner.ran[i].ok

\* C37: codexRunCommand returns ok = true exactly when the session
\* resolved with exit reason exit and code 0, every verification command
\* passed, and either nothing was to be committed (git add was not run)
\* or the push succeeded; a failing add, commit or push, and a commit with
\* no remote to push to, give ok = false.
C37_OkIffAllStagesSucceeded ==
    runner.pc = "returned" =>
       /\ runner.result # None
       /\ runner.result[1].ok <=>
             /\ runner.session =
                   Some([status |-> "resolved",
                         exit |-> [reason |-> "exit", exitCode |-> 0]])
             /\ \A i \in 1..Len(runner.ran) :
                   runner.ran[i].cmd = "verify" => runner.ran[i].ok
             /\ \/ "git add" \notin RanCmds
                \/ RanOk("git push")

\* Session and verification succeeded and the changes were committed, but
\* there was no remote to push to: the command returned ok = false.
C37_Witness ==
    /\ runner.pc = "returned"
    /\ runner.result = Some([ok |-> FALSE])
    /\ runner.codexSucceeded /\ runner.verifySucceeded
    /\ RanOk("git commit")
    /\ "git push" \notin RanCmds

\* A callback ran that was neither a heartbeat nor the arrival of a
\* non-empty chunk, and the clock did not move: onChunk took a raw chunk
\* that sanitizes to the empty string.
EmptyChunkStep ==
    /\ nEvents' # nEvents
    /\ now' = now
    /\ pollSamples' = pollSamples
    /\ received' = received

\* C38: a raw chunk that sanitizes to the empty string is a no-op.  No
\* chunk received is empty or holds binary noise, and the step of such a
\* raw chunk leaves the log, the transcript, the detection tail, the
\* suppressed output buffer and the observer's calls as they are and
\* dispatches nothing.
C38_EmptyChunkIsNoOp ==
    /\ [](\A i \in 1..Len(received) :
             /\ received[i] # <<>>
             /\ \A j \in 1..Len(received[i]) : received[i][j] # NUL)
    /\ [][EmptyChunkStep =>
            /\ NothingDispatched
            /\ UNCHANGED <<logFile, transcript, detectTail, suppressedOutput,
                           observed, promptError, cancelRequests, tailSince>>]_vars

\* A prompt arrived before spawn returned, and two chunks of binary noise
\* after it returned: the prompt is in the tail and nothing was dispatched.
C38_Witness ==
    /\ runStdin
    /\ nEvents = 3
    /\ Len(received) = 1
    /\ pollSamples = 0
    /\ now = StartMs
    /\ detectInteractivePrompt(detectTail) # None
    /\ dispatched = <<>>
    /\ logFile = received[1]

==============================================================================
